---- MODULE Spec2Model ----
(***************************************************************************)
(* A model of mbf-agent/src/patching.rs: the asset-bundle backup/restore   *)
(* manager, the diff fetcher with its retry wrapper, the integrity-checked *)
(* patch applier, the APK mutation pipeline and the install orchestrator.  *)
(*                                                                         *)
(* Files are byte sequences (tuples of numbers 0..255), file names are     *)
(* tuples of one-character strings, a path is <<directory, file name>>.    *)
(* The file system is a function whose domain is the set of paths that     *)
(* exist.  An `o` parameter of an I/O operator is the outcome the          *)
(* environment gives that call: "ok", or an injected failure.              *)
(***************************************************************************)
EXTENDS Integers, Sequences, FiniteSets, TLC

VARIABLES
    pc,        \* position of the running function
    entry,     \* the function the run entered through
    ret,       \* its return value, NoRet while it runs
    log,       \* what warn! and error! wrote, in order
    fault,     \* number of I/O failures the environment injected so far
    fs,        \* the file system: path -> content, for the paths that exist
    dirs,      \* the directories that exist
    fs0,       \* the file system when the run started
    todo,      \* save_obbs: directory entries read_dir has not yielded yet
    paths,     \* save_obbs: the Vec it returns (obb_backups in the caller)
    queue,     \* restore_obb_files: the part of obb_backups not yet visited
    version_diffs,  \* the VersionDiffs (obb_diffs, apk_diff) of a downgrade
    idx,       \* download_diffs: position in the sequence of diffs to fetch
    attempt,   \* download_diff_retry: the attempt counter
    calls,     \* every call of download_diff so far: <<diff, outcome>>
    zip,       \* the open container: entry name -> contents of its entries
    zipops,    \* the operations made on the container handle, in order
    stages,    \* patch_apk_in_place: the stages begun, in order
    libunity_path,  \* Option<PathBuf> of the unstripped libunity.so
    modloader, \* what get_modloader_installed returned
    trace,     \* mod_current_apk: the steps begun, in order, each with its result
    backed_up_data,  \* mod_current_apk: whether PlayerData.dat was backed up
    pkg,       \* the package the platform has installed, and its permission
    cmds       \* the platform commands run, in order, each with its exit

ctlVars == <<pc, entry, ret, log, fault>>
sysVars == <<fs, dirs, fs0>>
obbVars == <<todo, paths, queue>>
dlVars == <<version_diffs, idx, attempt, calls>>
zipVars == <<zip, zipops, stages, libunity_path, modloader>>
modVars == <<trace, backed_up_data, pkg, cmds>>
vars == <<ctlVars, sysVars, obbVars, dlVars, zipVars, modVars>>
notObb == <<dlVars, zipVars, modVars>>
notDl == <<obbVars, zipVars, modVars>>
notZip == <<obbVars, dlVars, modVars>>
notMod == <<obbVars, dlVars>>

----------------------------------------------------------------------------
(* Bounds of the model *)

NumObb == 2        \* asset-bundle file names a.obb, b.obb, ...
MaxFaults == 1     \* injected I/O failures per run

----------------------------------------------------------------------------
(* Results and paths *)

\* A Result: Ok, or an error with its message; `call` tells errors of the
\* same message apart (the number of the download_diff call that made it).
NoRet == [ok |-> FALSE, err |-> "running", call |-> 0]
Ok == [ok |-> TRUE, err |-> "", call |-> 0]
Err(e) == [ok |-> FALSE, err |-> e, call |-> 0]
ErrAt(e, n) == [ok |-> FALSE, err |-> e, call |-> n]

\* An Option
None == <<"None">>
Some(x) == <<"Some", x>>

APP_OBB_PATH == "obb"          \* the install directory of the asset bundles
TEMP_PATH == "tmp"             \* the temp workspace
OBB_BACKUP == "tmp/obbs"       \* temp_path.join("obbs")

Join(dir, name) == <<dir, name>>
FileName(path) == path[2]
Parent(path) == path[1]

Letters == <<"a", "b", "c", "d", "e">>
ObbName(i) == <<Letters[i], ".", "o", "b", "b">>
ObbNames == {ObbName(i) : i \in 1..NumObb}
\* names save_obbs must skip: no extension, a hidden file, another letter case
OtherNames == {<<"d", "l", "c">>, <<".", "o", "b", "b">>, <<"z", ".", "O", "B", "B">>}
Datas == {<<97>>, <<97, 98>>}      \* file contents: "a", "ab"

\* Path::extension: the part of the file name after its last dot; none when
\* there is no dot or the only dot is the first character.
LastDot(name) ==
    LET dots == {i \in 1..Len(name) : name[i] = "."}
    IN  IF dots = {} THEN 0 ELSE CHOOSE i \in dots : \A j \in dots : j <= i
Extension(name) ==
    IF LastDot(name) <= 1 THEN None
    ELSE Some(SubSeq(name, LastDot(name) + 1, Len(name)))
\* ext.is_some_and(|ext| ext == "obb")
IsObb(name) ==
    /\ Extension(name)[1] = "Some"
    /\ Extension(name)[2] = <<"o", "b", "b">>

----------------------------------------------------------------------------
(* std::fs on the modelled file system *)

Put(f, p, c) == [q \in (DOMAIN f) \cup {p} |-> IF q = p THEN c ELSE f[q]]
Remove(f, p) == [q \in (DOMAIN f) \ {p} |-> f[q]]

\* A package file: a container with its entries, or bytes that are none.
Apk(entries, signed) == [magic |-> "zip", entries |-> entries, signed |-> signed]
BadApk == [magic |-> "bad", entries |-> <<>>, signed |-> FALSE]

\* A copy that fails after it began to write ("copy_partial") has written
\* the first n bytes of the source, n from none to all of them: the error
\* can come after the last byte.  A package file is a record of what its
\* bytes hold and counts as one unit: short of it the bytes are no container.
IsPackage(path) == Extension(FileName(path)) = Some(<<"a", "p", "k">>)
Prefix(f, path, n) ==
    IF IsPackage(path) THEN (IF n >= 1 THEN f[path] ELSE BadApk)
    ELSE SubSeq(f[path], 1, IF n < Len(f[path]) THEN n ELSE Len(f[path]))
\* The numbers of bytes a copy of `from` under outcome o may have written
\* when it failed.
Cuts(f, from, o) ==
    IF o # "copy_partial" \/ from \notin DOMAIN f THEN {0}
    ELSE IF IsPackage(from) THEN {0, 1}
    ELSE 0..Len(f[from])

\* std::fs::copy(from, to): fails when the source is missing or the target
\* directory does not exist; the target is created and truncated before the
\* bytes are written, so a failed write leaves the bytes written so far,
\* and copying a file onto itself truncates it.
FsCopy(f, d, from, to, o, n) ==
    IF from \notin DOMAIN f \/ Parent(to) \notin d \/ o = "copy_fail"
    THEN [ok |-> FALSE, fs |-> f]
    ELSE IF o = "copy_partial"
    THEN [ok |-> FALSE,
          fs |-> Put(f, to, IF from = to THEN <<>> ELSE Prefix(f, from, n))]
    ELSE IF from = to
    THEN [ok |-> TRUE, fs |-> Put(f, to, <<>>)]
    ELSE [ok |-> TRUE, fs |-> Put(f, to, f[from])]

\* std::fs::remove_file(p)
FsRemove(f, p, o) ==
    IF p \notin DOMAIN f \/ o = "remove_fail"
    THEN [ok |-> FALSE, fs |-> f]
    ELSE [ok |-> TRUE, fs |-> Remove(f, p)]

CopyOutcomes == {"ok", "copy_fail", "copy_partial"}
MoveOutcomes == CopyOutcomes \cup {"remove_fail"}
Injected(o) == IF o = "ok" THEN 0 ELSE 1
MayInject(o) == o = "ok" \/ fault < MaxFaults

----------------------------------------------------------------------------
(* mod_current_apk: its steps in the order of the function body.  The      *)
(* three steps of reinstall_modded_app stand where it is called.           *)

ModSteps ==
    <<"create_temp", "save_libunity", "copy_apk", "call_save_obbs",
      "backup_player_data", "call_patch", "uninstall", "install",
      "grant_permission", "call_restore", "remove_temp_apk",
      "restore_player_data", "mod_return">>
ModAfter(step) ==
    ModSteps[1 + CHOOSE k \in 1..Len(ModSteps) : ModSteps[k] = step]

NoPkg == [app |-> "none", perm |-> FALSE]

----------------------------------------------------------------------------
(* save_obbs(obb_dir, obb_backup_path) *)

\* The path save_obbs records for a bundle it moved.
SavedPath(path, obb_backup_path) == path

\* A move that deletes the original whatever the copy did, which the claim
\* on moves must tell from the code's.
SaveObbStepDeleteAnyway(f, d, ps, path, obb_backup_path, o, n) ==
    IF ~IsObb(FileName(path)) THEN [err |-> "", fs |-> f, paths |-> ps]
    ELSE
        LET cp == FsCopy(f, d, path, Join(obb_backup_path, FileName(path)), o, n)
            rm == FsRemove(cp.fs, path, "ok")
        IN  IF ~cp.ok THEN [err |-> "copy", fs |-> rm.fs, paths |-> ps]
            ELSE [err |-> "", fs |-> rm.fs,
                  paths |-> Append(ps, SavedPath(path, obb_backup_path))]

\* One iteration of the loop over read_dir, for the entry at `path`.
SaveObbStep(f, d, ps, path, obb_backup_path, o, n) ==
    IF ~IsObb(FileName(path)) THEN [err |-> "", fs |-> f, paths |-> ps]
    ELSE
        LET cp == FsCopy(f, d, path, Join(obb_backup_path, FileName(path)), o, n)
            rm == FsRemove(cp.fs, path, o)
        IN  IF ~cp.ok THEN [err |-> "copy", fs |-> cp.fs, paths |-> ps]
            ELSE IF ~rm.ok THEN [err |-> "remove_file", fs |-> rm.fs, paths |-> ps]
            ELSE [err |-> "", fs |-> rm.fs,
                  paths |-> Append(ps, SavedPath(path, obb_backup_path))]

\* The function returns to its caller: the harness that runs save_obbs and
\* then restore_obb_files, or mod_current_apk.
AfterSaveObbs == IF entry = "mod_current_apk" THEN ModAfter("call_save_obbs")
                 ELSE "restore_obb_files"

\* std::fs::read_dir(obb_dir)?
SaveObbsReadDir ==
    /\ pc = "save_obbs"
    /\ \E o \in {"ok", "read_dir_fail"} :
        /\ MayInject(o)
        /\ fault' = fault + Injected(o)
        /\ IF APP_OBB_PATH \notin dirs \/ o # "ok"
           THEN /\ pc' = "done"
                /\ ret' = Err("read_dir")
                /\ UNCHANGED todo
           ELSE /\ pc' = "save_obbs_loop"
                /\ todo' = {p \in DOMAIN fs : Parent(p) = APP_OBB_PATH}
                /\ UNCHANGED ret
    /\ paths' = <<>>
    /\ UNCHANGED <<entry, log, sysVars, queue, notObb>>

\* One directory entry, in whatever order the directory yields them.  An
\* item that is an Err is skipped (if let Ok(stat) = err_or_stat), and it is
\* the last item: after a failed read the iterator is at its end, so the
\* entries not yielded yet are never seen.
SaveObbsEntry ==
    /\ pc = "save_obbs_loop"
    /\ \E path \in todo, o \in MoveOutcomes \cup {"entry_err"} :
      \E n \in Cuts(fs, path, o) :
        /\ MayInject(o)
        /\ fault' = fault + Injected(o)
        /\ todo' = IF o = "entry_err" THEN {} ELSE todo \ {path}
        /\ IF o = "entry_err" THEN UNCHANGED <<pc, ret, fs, paths>>
           ELSE LET r == SaveObbStep(fs, dirs, paths, path, OBB_BACKUP, o, n)
                IN  /\ fs' = r.fs
                    /\ paths' = r.paths
                    /\ IF r.err # ""
                       THEN pc' = "done" /\ ret' = Err(r.err)
                       ELSE UNCHANGED <<pc, ret>>
    /\ UNCHANGED <<entry, log, dirs, fs0, queue, notObb>>

\* Ok(paths)
SaveObbsReturn ==
    /\ pc = "save_obbs_loop"
    /\ todo = {}
    /\ pc' = AfterSaveObbs
    /\ UNCHANGED <<entry, ret, log, fault, sysVars, obbVars, notObb>>

----------------------------------------------------------------------------
(* restore_obb_files(restore_dir, obb_backups) *)

\* One iteration of the loop, for `backup_path`.  The result of remove_file
\* is dropped: the step fails only when the copy fails.
RestoreObbStep(f, d, backup_path, restore_dir, o, n) ==
    LET cp == FsCopy(f, d, backup_path, Join(restore_dir, FileName(backup_path)), o, n)
        rm == FsRemove(cp.fs, backup_path, o)
    IN  IF ~cp.ok THEN [err |-> "copy", fs |-> cp.fs, removed |-> FALSE]
        ELSE [err |-> "", fs |-> rm.fs, removed |-> rm.ok]

AfterRestoreObb == IF entry = "mod_current_apk" THEN ModAfter("call_restore")
                   ELSE "done"

\* std::fs::create_dir_all(restore_dir)?
RestoreObbCreateDir ==
    /\ pc = "restore_obb_files"
    /\ \E o \in {"ok", "create_dir_fail"} :
        /\ MayInject(o)
        /\ fault' = fault + Injected(o)
        /\ IF o # "ok"
           THEN /\ pc' = "done"
                /\ ret' = Err("create_dir_all")
                /\ UNCHANGED <<dirs, queue>>
           ELSE /\ pc' = "restore_obb_loop"
                /\ dirs' = dirs \cup {APP_OBB_PATH}
                /\ queue' = paths
                /\ UNCHANGED ret
    /\ UNCHANGED <<entry, log, fs, fs0, todo, paths, notObb>>

RestoreObbEntry ==
    /\ pc = "restore_obb_loop"
    /\ queue # <<>>
    /\ \E o \in MoveOutcomes :
      \E n \in Cuts(fs, Head(queue), o) :
        /\ MayInject(o)
        /\ fault' = fault + Injected(o)
        /\ LET r == RestoreObbStep(fs, dirs, Head(queue), APP_OBB_PATH, o, n)
           IN  /\ fs' = r.fs
               /\ IF r.err # ""
                  THEN pc' = "done" /\ ret' = Err(r.err) /\ UNCHANGED queue
                  ELSE queue' = Tail(queue) /\ UNCHANGED <<pc, ret>>
    /\ UNCHANGED <<entry, log, dirs, fs0, todo, paths, notObb>>

\* Ok(())
RestoreObbReturn ==
    /\ pc = "restore_obb_loop"
    /\ queue = <<>>
    /\ pc' = AfterRestoreObb
    /\ ret' = IF entry = "mod_current_apk" THEN ret ELSE Ok
    /\ UNCHANGED <<entry, log, fault, sysVars, obbVars, notObb>>

----------------------------------------------------------------------------
(* CRC-32 (ZIP_CRC).  A 32-bit value is <<high 16 bits, low 16 bits>>.     *)

RECURSIVE XorBits(_, _, _)
XorBits(a, b, n) ==
    IF n = 0 THEN 0
    ELSE ((a + b) % 2) + 2 * XorBits(a \div 2, b \div 2, n - 1)
Xor32(x, y) == <<XorBits(x[1], y[1], 16), XorBits(x[2], y[2], 16)>>
Shr32(x) == <<x[1] \div 2, (x[2] \div 2) + 32768 * (x[1] % 2)>>
CrcPoly == <<60856, 33568>>        \* 0xEDB88320, the reflected polynomial
CrcShift(r) == IF r[2] % 2 = 1 THEN Xor32(Shr32(r), CrcPoly) ELSE Shr32(r)
RECURSIVE CrcShifts(_, _)
CrcShifts(r, n) == IF n = 0 THEN r ELSE CrcShifts(CrcShift(r), n - 1)
CrcByte(r, b) == CrcShifts(Xor32(r, <<0, b>>), 8)
RECURSIVE CrcUpdate(_, _)
CrcUpdate(r, bytes) ==
    IF bytes = <<>> THEN r ELSE CrcUpdate(CrcByte(r, Head(bytes)), Tail(bytes))
\* ZIP_CRC.checksum(bytes)
Checksum(bytes) == Xor32(CrcUpdate(<<65535, 65535>>, bytes), <<65535, 65535>>)

----------------------------------------------------------------------------
(* Diffs.  A Diff has the name of the diff (diff_name), the name of the    *)
(* file it is for (file_name) and the CRC-32 the file has before patching. *)

DIFF_DOWNLOAD_ATTEMPTS == 3
\* Injected failures of download_diff per run: as many as it takes for one
\* diff to exhaust its attempts.
MaxDownloadFaults == DIFF_DOWNLOAD_ATTEMPTS
DIFFS_PATH == "tmp/diffs"
NoDiffs == [obb_diffs |-> <<>>, apk_diff |-> <<>>]

\* What the diff repository serves for a diff (external_res::get_diff_reader):
\* a patch whose header byte is 66 and whose body depends on the diff.
PatchMagic == 66
Remote(diff) == <<PatchMagic, Len(diff.diff_name), 1>>

\* download_diff(diff, to_dir) under outcome o: the output file is created
\* and truncated at to_dir/diff_name, then the response is opened, then the
\* stream is copied.  The response comes with a Content-Length or without
\* one ("..no_length"); a copy that fails has written the n bytes received
\* before the failure, from none to all of them.
DownloadPath(diff, to_dir) == Join(to_dir, diff.diff_name)
DownloadOk(o) == o \in {"ok", "ok_no_length"}
CopyFails == {"copy_fail", "copy_fail_no_length"}
NoLength(o) == o \in {"ok_no_length", "copy_fail_no_length"}
Received(diff, o) ==
    IF o \in CopyFails THEN 0..Len(Remote(diff)) ELSE {0}
DownloadDiff(f, diff, to_dir, o, n) ==
    IF o = "open_fail" THEN f
    ELSE IF o = "reader_fail" THEN Put(f, DownloadPath(diff, to_dir), <<>>)
    ELSE IF o \in CopyFails
    THEN Put(f, DownloadPath(diff, to_dir), SubSeq(Remote(diff), 1, n))
    ELSE Put(f, DownloadPath(diff, to_dir), Remote(diff))
\* What the file system, the repository and the network do in a call.
DownloadOutcomes == {"ok", "ok_no_length", "open_fail", "reader_fail"} \cup CopyFails

\* The error of a failed call: the step that failed, and the call it is of.
DownloadErr(o, n) == ErrAt(o, n)

RetryDecisionOffByOne(ok, att) ==
    IF ok THEN "return_ok"
    ELSE IF att > DIFF_DOWNLOAD_ATTEMPTS THEN "break_err"
    ELSE "try_again"
\* download_diff_retry: what the loop does with the result of a call.
RetryDecision(ok, att) ==
    IF ok THEN "return_ok"
    ELSE IF att = DIFF_DOWNLOAD_ATTEMPTS THEN "break_err"
    ELSE "try_again"

FetchOrderObbReversed(vd) ==
    [i \in 1..Len(vd.obb_diffs) |-> vd.obb_diffs[Len(vd.obb_diffs) - i + 1]]
        \o <<vd.apk_diff>>
\* download_diffs: the diffs in the order they are fetched.
FetchOrder(vd) == vd.obb_diffs \o <<vd.apk_diff>>

\* download_diffs: enter download_diff_retry for the next diff, or Ok(()).
DownloadDiffsNext ==
    /\ pc = "download_diffs"
    /\ IF idx < Len(FetchOrder(version_diffs))
       THEN /\ idx' = idx + 1
            /\ attempt' = 1
            /\ pc' = "download_diff_retry"
       ELSE /\ pc' = "apply_diff"
            /\ UNCHANGED <<idx, attempt>>
    /\ UNCHANGED <<entry, ret, log, fault, sysVars, version_diffs, calls, notDl>>

\* download_diff_retry: one pass of the loop, a call of download_diff and the
\* match on its result.  A failure that is not the last is logged with
\* error! and the loop goes on; Err of the last one returns through the `?`
\* of download_diffs.
DownloadAttempt ==
    /\ pc = "download_diff_retry"
    /\ \E oo \in DownloadOutcomes :
        LET diff == FetchOrder(version_diffs)[idx]
            \* the output file cannot be opened in a directory that is missing
            o == IF DIFFS_PATH \in dirs THEN oo ELSE "open_fail"
            err == DownloadErr(o, Len(calls) + 1)
            what == RetryDecision(DownloadOk(o), attempt)
        IN  /\ DIFFS_PATH \in dirs /\ ~DownloadOk(o)
                    => Len(SelectSeq(calls, LAMBDA c : ~DownloadOk(c[2]))) < MaxDownloadFaults
            /\ \E n \in Received(diff, o) :
                    fs' = DownloadDiff(fs, diff, DIFFS_PATH, o, n)
            /\ calls' = Append(calls, <<diff, o>>)
            /\ log' = (IF NoLength(o)
                       THEN Append(log, <<"warn", diff.diff_name, "no Content-Length", 0>>)
                       ELSE log)
                      \o (IF what = "try_again"
                          THEN << <<"error", diff.diff_name, err.err, err.call>> >>
                          ELSE <<>>)
            /\ attempt' = IF what = "try_again" THEN attempt + 1 ELSE attempt
            /\ pc' = IF what = "return_ok" THEN "download_diffs"
                     ELSE IF what = "break_err" THEN "done"
                     ELSE pc
            /\ ret' = IF what = "break_err" THEN err ELSE ret
    /\ UNCHANGED <<entry, fault, dirs, fs0, version_diffs, idx, notDl>>

----------------------------------------------------------------------------
(* read_file_vec and apply_diff *)

\* Vec::with_capacity(n): an empty vector, whatever its capacity.
VecWithCapacity(n) == <<>>

\* reader.read_exact(&mut buf) fills the Len(buf) bytes of buf from the
\* front of the file; its result is dropped by read_file_vec.
ReadExact(content, buf) ==
    [k \in 1..Len(buf) |-> IF k <= Len(content) THEN content[k] ELSE buf[k]]

\* read_file_vec(path) under outcome o of File::open and handle.metadata(),
\* either of which can fail on a file that is there.
ReadFileVec(f, path, o) ==
    IF path \notin DOMAIN f \/ o \in {"open_fail", "metadata_fail"}
    THEN [ok |-> FALSE, data |-> <<>>]
    ELSE [ok |-> TRUE, data |-> ReadExact(f[path], VecWithCapacity(Len(f[path])))]

\* qbsdiff::Bspatch::new(bytes) accepts bytes that start with the patch
\* header; Bspatch::apply(source, out) writes, for every body byte, the sum
\* of it and the source byte at its position.
BspatchNew(bytes) == Len(bytes) >= 1 /\ bytes[1] = PatchMagic
BspatchApply(patch, source) ==
    [k \in 1..(Len(patch) - 1) |->
        (patch[k + 1] + (IF k <= Len(source) THEN source[k] ELSE 0)) % 256]

\* The payload file apply_diff reads for a diff.
PayloadPath(diff, diffs_path) == Join(diffs_path, diff.file_name)

E_NOT_DOWNLOADED == "Diff could not be opened. Was it downloaded"
E_INVALID_DIFF == "Diff file was invalid"
E_CRC == "File CRC did not match expected value"

\* The call of apply_diff an outcome is of, and what fails in it: a read of
\* the payload ("diff_.."), a read of the source ("file_.."), the open of
\* the destination or the write of the result.
ApplyOutcomes == {"ok", "diff_open_fail", "diff_metadata_fail", "file_open_fail",
                  "file_metadata_fail", "open_fail", "apply_fail"}
\* apply_diff(from_path, to_path, diff, diffs_path) under outcome o; a
\* failed patch.apply has written the first n bytes of the result.
ApplyDiff(f, d, from_path, to_path, diff, diffs_path, o, n) ==
    LET diff_content == ReadFileVec(f, PayloadPath(diff, diffs_path),
                                    IF o = "diff_open_fail" THEN "open_fail"
                                    ELSE IF o = "diff_metadata_fail" THEN "metadata_fail"
                                    ELSE "ok")
        file_content == ReadFileVec(f, from_path,
                                    IF o = "file_open_fail" THEN "open_fail"
                                    ELSE IF o = "file_metadata_fail" THEN "metadata_fail"
                                    ELSE "ok")
        before_crc == Checksum(file_content.data)
        output == BspatchApply(diff_content.data, file_content.data)
    IN  IF ~diff_content.ok THEN [ret |-> Err(E_NOT_DOWNLOADED), fs |-> f]
        ELSE IF ~BspatchNew(diff_content.data)
        THEN [ret |-> Err(E_INVALID_DIFF), fs |-> f]
        ELSE IF ~file_content.ok THEN [ret |-> Err("open"), fs |-> f]
        ELSE IF before_crc # diff.file_crc THEN [ret |-> Err(E_CRC), fs |-> f]
        ELSE IF Parent(to_path) \notin d \/ o = "open_fail"
        THEN [ret |-> Err("open"), fs |-> f]
        ELSE IF o = "apply_fail"
        THEN [ret |-> Err("apply"),
              fs |-> Put(f, to_path,
                         SubSeq(output, 1, IF n < Len(output) THEN n ELSE Len(output)))]
        ELSE [ret |-> Ok, fs |-> Put(f, to_path, output)]

\* The numbers of bytes a failed patch.apply may have written: the result
\* has one byte for every body byte of the payload file.
Written(f, diff, diffs_path, o) ==
    IF o # "apply_fail" \/ PayloadPath(diff, diffs_path) \notin DOMAIN f THEN {0}
    ELSE 0..Len(f[PayloadPath(diff, diffs_path)])

\* The file being downgraded and the file the result is written to.
FromPath == <<"app", <<"b", ".", "a">>>>
ToPath == <<TEMP_PATH, <<"o", ".", "a">>>>

\* apply_diff on the package diff.
ApplyDiffCall ==
    /\ pc = "apply_diff"
    /\ \E o \in ApplyOutcomes :
      \E n \in Written(fs, version_diffs.apk_diff, DIFFS_PATH, o) :
        /\ MayInject(o)
        /\ fault' = fault + Injected(o)
        /\ LET r == ApplyDiff(fs, dirs, FromPath, ToPath, version_diffs.apk_diff,
                              DIFFS_PATH, o, n)
           IN  fs' = r.fs /\ ret' = r.ret
    /\ pc' = "done"
    /\ UNCHANGED <<entry, log, dirs, fs0, dlVars, notDl>>

----------------------------------------------------------------------------
(* A downgrade: download_diffs, then apply_diff on the package diff. *)

MaxObbDiffs == 2

ApkDiffName == <<"k", ".", "d">>
ObbDiff(i) == [diff_name |-> <<"o", Letters[i]>>, file_name |-> ObbName(i),
               file_crc |-> <<0, i>>]
\* A package diff stored under its own name, or under another name.
ApkDiffs(crcs) ==
    {[diff_name |-> ApkDiffName, file_name |-> n, file_crc |-> c] :
        n \in {ApkDiffName, FileName(FromPath)}, c \in crcs}

InitFetch ==
    /\ pc = "download_diffs"
    /\ entry = "downgrade"
    /\ ret = NoRet
    /\ log = <<>>
    /\ fault = 0
    /\ fs = (FromPath :> <<97>>)
    /\ dirs \in {{"app", TEMP_PATH, DIFFS_PATH}, {"app", TEMP_PATH}}
    /\ fs0 = fs
    /\ todo = {}
    /\ paths = <<>>
    /\ queue = <<>>
    /\ \E n \in 0..MaxObbDiffs, a \in ApkDiffs({Checksum(<<97>>)}) :
        version_diffs = [obb_diffs |-> [i \in 1..n |-> ObbDiff(i)], apk_diff |-> a]
    /\ idx = 0
    /\ attempt = 0
    /\ calls = <<>>
    /\ zip = <<>>
    /\ zipops = <<>>
    /\ stages = <<>>
    /\ libunity_path = None
    /\ modloader = "not called"
    /\ trace = <<>>
    /\ backed_up_data = FALSE
    /\ pkg = NoPkg
    /\ cmds = <<>>

NextFetch ==
    \/ DownloadDiffsNext
    \/ DownloadAttempt
    \/ ApplyDiffCall

SpecFetch == InitFetch /\ [][NextFetch]_vars

\* The calls of download_diff made for diff d, in order.
CallsFor(d) == SelectSeq(calls, LAMBDA c : c[1] = d)
Failed(c) == ~DownloadOk(c[2])
\* What error! wrote about the diff named dn.
ErrorsLogged(dn) == SelectSeq(log, LAMBDA l : l[1] = "error" /\ l[2] = dn)
\* download_diff_retry gave up on the diff of the last call.
Exhausted == entry = "downgrade" /\ pc = "done" /\ ret.call > 0

\* C2: download_diff_retry calls download_diff at most 3 times for a diff
\* and stops at the first success (a success is the last call for its
\* diff); when all 3 attempts failed it returns the error of the 3rd call
\* as it is, and exactly the errors of attempts 1 and 2 were logged.
C2_RetryBound ==
    /\ \A k \in 1..Len(calls) :
        LET mine == CallsFor(calls[k][1])
        IN  /\ Len(mine) <= 3
            /\ \A j \in 1..(Len(mine) - 1) : Failed(mine[j])
    /\ Exhausted =>
        LET n == Len(calls)
            mine == CallsFor(calls[n][1])
        IN  /\ Len(mine) = 3
            /\ \A j \in 1..3 : Failed(mine[j])
            /\ ret = [ok |-> FALSE, err |-> calls[n][2], call |-> n]
            /\ ErrorsLogged(calls[n][1].diff_name) =
                 [j \in 1..2 |-> <<"error", calls[n][1].diff_name, mine[j][2], n - 3 + j>>]
\* The first diff came on its first attempt, which was its only call; the
\* next one failed three times, the last time with another error than the
\* two times before, and the retries gave up.
C2_Witness ==
    /\ Exhausted
    /\ Len(calls) = 4
    /\ ~Failed(calls[1])
    /\ calls[2][2] # calls[4][2] /\ calls[3][2] # calls[4][2]

\* The diffs fetched so far, each once, in the order of their first call.
RECURSIVE Distinct(_)
Distinct(sq) ==
    IF sq = <<>> THEN <<>>
    ELSE LET r == Distinct(SubSeq(sq, 1, Len(sq) - 1))
             x == sq[Len(sq)]
         IN  IF \E k \in 1..Len(r) : r[k] = x THEN r ELSE Append(r, x)
Fetched == Distinct([k \in 1..Len(calls) |-> calls[k][1]])

\* C9: download_diffs fetches one diff after the other: the asset-bundle
\* diffs in the order of obb_diffs, the package diff last, a diff only after
\* the one before it succeeded; once the retries of a diff are exhausted no
\* other call is made, and every diff that was downloaded is still on disk.
C9_Sequential ==
    entry = "downgrade" =>
        LET obb == version_diffs.obb_diffs
            apk == version_diffs.apk_diff
        IN  /\ Len(Fetched) <= Len(obb) + 1
            /\ \A k \in 1..Len(Fetched) :
                Fetched[k] = IF k <= Len(obb) THEN obb[k] ELSE apk
            /\ \A k \in 1..(Len(calls) - 1) :
                calls[k][1] # calls[k + 1][1] => ~Failed(calls[k])
            /\ \A k \in 1..(Len(calls) - 1) :
                (Failed(calls[k]) /\ Len(CallsFor(calls[k][1])) = 3) =>
                    calls[k + 1][1] = calls[k][1]
            /\ \A k \in 1..Len(calls) :
                ~Failed(calls[k]) =>
                    LET p == <<DIFFS_PATH, calls[k][1].diff_name>>
                    IN  p \in DOMAIN fs /\ fs[p] = Remote(calls[k][1])
\* Two asset-bundle diffs came, the first before the second, each on its
\* first attempt; the package diff then failed three times, and the two
\* that were downloaded are on disk.
C9_Witness ==
    /\ Exhausted
    /\ Len(version_diffs.obb_diffs) = 2
    /\ Len(calls) = 5
    /\ calls[1][1] = version_diffs.obb_diffs[1] /\ ~Failed(calls[1])
    /\ calls[2][1] = version_diffs.obb_diffs[2] /\ ~Failed(calls[2])
    /\ calls[5][1] = version_diffs.apk_diff
    /\ <<DIFFS_PATH, calls[1][1].diff_name>> \in DOMAIN fs
    /\ <<DIFFS_PATH, calls[2][1].diff_name>> \in DOMAIN fs

\* C10: when download_diffs has downloaded the diffs and apply_diff runs on
\* the package diff, apply_diff finds the payload that was downloaded.
C10_PayloadFound ==
    (entry = "downgrade" /\ pc = "done" /\ ret.call = 0) =>
        ret.err # E_NOT_DOWNLOADED

(* apply_diff alone, on any payload, source file and expected checksum. *)

Payloads == {<<>>, <<1, 2>>, <<PatchMagic, 1, 2, 3>>, <<PatchMagic>>}
Sources == {<<>>, <<97>>, <<97, 98>>}

InitApply ==
    /\ pc = "apply_diff"
    /\ entry = "apply_diff"
    /\ ret = NoRet
    /\ log = <<>>
    /\ fault = 0
    /\ dirs = {"app", TEMP_PATH, DIFFS_PATH}
    /\ \E a \in ApkDiffs({Checksum(c) : c \in Sources}),
          P \in SUBSET {ApkDiffName, FileName(FromPath)},
          S \in SUBSET {FromPath, ToPath} :
        /\ version_diffs = [obb_diffs |-> <<>>, apk_diff |-> a]
        /\ fs \in [{Join(DIFFS_PATH, n) : n \in P} \cup S ->
                    Payloads \cup Sources]
        /\ \A n \in P : fs[Join(DIFFS_PATH, n)] \in Payloads
        /\ \A q \in S : fs[q] \in Sources
    /\ fs0 = fs
    /\ todo = {}
    /\ paths = <<>>
    /\ queue = <<>>
    /\ idx = 0
    /\ attempt = 0
    /\ calls = <<>>
    /\ zip = <<>>
    /\ zipops = <<>>
    /\ stages = <<>>
    /\ libunity_path = None
    /\ modloader = "not called"
    /\ trace = <<>>
    /\ backed_up_data = FALSE
    /\ pkg = NoPkg
    /\ cmds = <<>>

NextApply == ApplyDiffCall

SpecApply == InitApply /\ [][NextApply]_vars

\* The file at p is as it was when the run started.
Same(p) == p \in DOMAIN fs /\ fs[p] = fs0[p]

\* apply_diff has returned, on a payload that was at the place it reads and
\* well formed, and on a source file that was there.
Applied ==
    /\ entry = "apply_diff"
    /\ pc = "done"
    /\ PayloadPath(version_diffs.apk_diff, DIFFS_PATH) \in DOMAIN fs0
    /\ BspatchNew(fs0[PayloadPath(version_diffs.apk_diff, DIFFS_PATH)])
    /\ FromPath \in DOMAIN fs0
Untouched(p) == IF p \in DOMAIN fs0 THEN Same(p) ELSE p \notin DOMAIN fs

\* C3: when the CRC-32 of the source file is not diff.file_crc, apply_diff
\* fails with the CRC mismatch error and the destination is not created,
\* truncated or written.
C3_CrcMismatchRejected ==
    (Applied /\ Checksum(fs0[FromPath]) # version_diffs.apk_diff.file_crc) =>
        /\ ret = Err(E_CRC)
        /\ Untouched(ToPath)

\* C4: when the CRC-32 of the source file is diff.file_crc and the payload
\* is a valid patch, apply_diff succeeds, and the destination holds the
\* patch applied to the source bytes.
C4_MatchingSourcePatched ==
    (Applied /\ fault = 0
       /\ Checksum(fs0[FromPath]) = version_diffs.apk_diff.file_crc) =>
        /\ ret = Ok
        /\ ToPath \in DOMAIN fs
        /\ fs[ToPath] = BspatchApply(fs0[PayloadPath(version_diffs.apk_diff, DIFFS_PATH)],
                                     fs0[FromPath])

\* C11: read_file_vec returns the full content of every readable file: the
\* vector it returns has the file's length and the file's bytes, so the
\* payload apply_diff parses and the source it checksums are the bytes of
\* the files.
C11_ReadsFullContent ==
    \A p \in DOMAIN fs :
        /\ ReadFileVec(fs, p, "ok").ok
        /\ Len(ReadFileVec(fs, p, "ok").data) = Len(fs[p])
        /\ ReadFileVec(fs, p, "ok").data = fs[p]

----------------------------------------------------------------------------
(* Strings, and the contents of container entries.  A string is a tuple of *)
(* characters.  An entry's content is a sequence of tokens <<key, type,    *)
(* value>>: a JSON object is one token per field, of type "string" or      *)
(* "null"; a binary-XML manifest is an "axml" header token followed by its *)
(* attributes and elements; any other content is one "raw" token.          *)

Contains(str, sub) ==
    \E i \in 1..(Len(str) - Len(sub) + 1) : SubSeq(str, i, i + Len(sub) - 1) = sub

UpperCase == <<"A", "B", "C", "D", "E", "F", "G", "H", "I", "J", "K", "L", "M", "N", "O", "P", "Q", "R", "S", "T", "U", "V", "W", "X", "Y", "Z">>
LowerCase == <<"a", "b", "c", "d", "e", "f", "g", "h", "i", "j", "k", "l", "m", "n", "o", "p", "q", "r", "s", "t", "u", "v", "w", "x", "y", "z">>
ToAsciiLowercase(ch) ==
    IF \E i \in 1..26 : UpperCase[i] = ch
    THEN LowerCase[CHOOSE i \in 1..26 : UpperCase[i] = ch]
    ELSE ch
EqExact(a, b) == a = b
\* str::eq_ignore_ascii_case
EqIgnoreAsciiCase(a, b) ==
    /\ Len(a) = Len(b)
    /\ \A i \in 1..Len(a) : ToAsciiLowercase(a[i]) = ToAsciiLowercase(b[i])

MOD_TAG_PATH == <<"m", "o", "d", "d", "e", "d", ".", "j", "s", "o", "n">>
LIB_MAIN_PATH == <<"l", "i", "b", "/", "a", "r", "m", "6", "4", "-", "v", "8", "a", "/", "l", "i", "b", "m", "a", "i", "n", ".", "s", "o">>
LIB_UNITY_PATH == <<"l", "i", "b", "/", "a", "r", "m", "6", "4", "-", "v", "8", "a", "/", "l", "i", "b", "u", "n", "i", "t", "y", ".", "s", "o">>
MANIFEST_PATH == <<"A", "n", "d", "r", "o", "i", "d", "M", "a", "n", "i", "f", "e", "s", "t", ".", "x", "m", "l">>
QuestLoaderName == <<"Q", "u", "e", "s", "t", "L", "o", "a", "d", "e", "r">>
Scotland2Name == <<"S", "c", "o", "t", "l", "a", "n", "d", "2">>

Raw(name) == << <<"", "raw", name>> >>
LIB_MAIN == Raw(<<"l", "i", "b", "m", "a", "i", "n">>)   \* include_bytes!(libmain.so)

\* serde_json::to_vec_pretty(&tag): one field per token, None as null.
JsonField(key, opt) ==
    IF opt = None THEN <<key, "null", <<>>>> ELSE <<key, "string", opt[2]>>
ToVecPretty(tag) ==
    << JsonField("patcher_name", Some(tag.patcher_name)),
       JsonField("patcher_version", tag.patcher_version),
       JsonField("modloader_name", Some(tag.modloader_name)),
       JsonField("modloader_version", tag.modloader_version) >>

\* serde_json::from_slice::<ModTag>(data).  The text is an object, one
\* token per field, or an array, one "[]" token per element, which stands
\* for the fields in the order of the struct.  The two names must be there
\* once, as strings; the two versions at most once, as strings or null; an
\* array has exactly the four elements.  Fields that are not of ModTag are
\* ignored, whatever they hold and however often they come.
TagFields == <<"patcher_name", "patcher_version", "modloader_name", "modloader_version">>
JsonTypes == {"string", "null", "number"}
IsArray(data) ==
    /\ Len(data) >= 1
    /\ \A i \in 1..Len(data) : data[i][1] = "[]" /\ data[i][2] \in JsonTypes
IsObject(data) ==
    /\ Len(data) >= 1
    /\ \A i \in 1..Len(data) : data[i][1] \notin {"", "[]"} /\ data[i][2] \in JsonTypes
JsonFields(data, key) ==
    IF IsArray(data)
    THEN {i \in 1..Len(data) : i <= Len(TagFields) /\ TagFields[i] = key}
    ELSE {i \in 1..Len(data) : data[i][1] = key}
JsonValid(data) ==
    /\ IsArray(data) \/ IsObject(data)
    /\ IsArray(data) => Len(data) = Len(TagFields)
    /\ \A key \in {"patcher_name", "modloader_name"} :
        /\ \E i \in JsonFields(data, key) : data[i][2] = "string"
        /\ \A i, j \in JsonFields(data, key) : i = j
    /\ \A key \in {"patcher_version", "modloader_version"} :
        /\ \A i \in JsonFields(data, key) : data[i][2] \in {"string", "null"}
        /\ \A i, j \in JsonFields(data, key) : i = j
JsonOpt(data, key) ==
    IF \E i \in JsonFields(data, key) : data[i][2] = "string"
    THEN Some(data[CHOOSE i \in JsonFields(data, key) : TRUE][3])
    ELSE None
FromSlice(data) ==
    [patcher_name |-> JsonOpt(data, "patcher_name")[2],
     patcher_version |-> JsonOpt(data, "patcher_version"),
     modloader_name |-> JsonOpt(data, "modloader_name")[2],
     modloader_version |-> JsonOpt(data, "modloader_version")]

----------------------------------------------------------------------------
(* The container (ZipFile) *)

\* A container maps a name to the contents of the entries of that name,
\* oldest first: one entry per name in a well-formed package, more when a
\* write added an entry beside one of the same name.
Entries(f) == [name \in DOMAIN f |-> <<f[name]>>]
ContainsFile(z, name) == name \in DOMAIN z
\* read_file: the content of the entry of that name, the newest of them
ReadFile(z, name) == z[name][Len(z[name])]
DeleteFile(z, name) == Remove(z, name)
\* write_file on a name the container already has: the new entry takes the
\* place of the old one ("replace") or stands beside it ("add").  Which of
\* the two ZipFile::write_file does is not stated for the codec; it is
\* stated for the tag, which is written "overwriting if present".
WriteModes == {"replace", "add"}
WriteFile(z, name, data, m) ==
    IF m = "add" /\ name \in DOMAIN z THEN Put(z, name, Append(z[name], data))
    ELSE Put(z, name, <<data>>)
IterEntryNames(z) == DOMAIN z

----------------------------------------------------------------------------
(* get_modloader_installed(apk) *)

\* The variant for a tag that was read and decoded.
ModLoaderOf(mod_tag) ==
    IF EqIgnoreAsciiCase(mod_tag.modloader_name, QuestLoaderName) THEN "QuestLoader"
    ELSE IF EqIgnoreAsciiCase(mod_tag.modloader_name, Scotland2Name) THEN "Scotland2"
    ELSE "Unknown"

\* The Result<Option<ModLoader>> under outcome o of read_file.
GetModloaderInstalled(apk, o) ==
    IF ContainsFile(apk, MOD_TAG_PATH)
    THEN IF o = "read_fail" THEN [ret |-> Err("Failed to read mod tag"), val |-> "Err"]
         ELSE IF ~JsonValid(ReadFile(apk, MOD_TAG_PATH)) THEN [ret |-> Ok, val |-> "Unknown"]
         ELSE [ret |-> Ok, val |-> ModLoaderOf(FromSlice(ReadFile(apk, MOD_TAG_PATH)))]
    ELSE IF \E e \in IterEntryNames(apk) : Contains(e, <<"m", "o", "d", "d", "e", "d">>)
    THEN [ret |-> Ok, val |-> "Unknown"]
    ELSE [ret |-> Ok, val |-> "None"]

GetModloaderInstalledCall ==
    /\ pc = "get_modloader_installed"
    /\ \E o \in {"ok", "read_fail"} :
        /\ MayInject(o)
        /\ fault' = fault + Injected(o)
        /\ LET r == GetModloaderInstalled(zip, o)
           IN  ret' = r.ret /\ modloader' = r.val
        \* warn!("Mod tag was invalid JSON: {err}... Assuming unknown modloader")
        /\ log' = IF o = "ok" /\ ContainsFile(zip, MOD_TAG_PATH)
                      /\ ~JsonValid(ReadFile(zip, MOD_TAG_PATH))
                   THEN Append(log, <<"warn", <<>>, "Mod tag was invalid JSON", 0>>)
                   ELSE log
    /\ pc' = "done"
    /\ UNCHANGED <<entry, sysVars, zip, zipops, stages, libunity_path, notZip>>

(* get_modloader_installed on any container: with or without a tag entry, *)
(* the tag well formed or not, its modloader_name in any spelling.         *)

TagNames == {<<"Q", "u", "e", "s", "t", "L", "o", "a", "d", "e", "r">>, <<"q", "u", "e", "s", "t", "l", "o", "a", "d", "e", "r">>, <<"Q", "U", "E", "S", "T", "L", "O", "A", "D", "E", "R">>, <<"q", "U", "E", "S", "T", "l", "O", "A", "D", "E", "R">>, <<"Q", "u", "e", "s", "t", "L", "o", "a", "d", "e", "r", "2">>,
             <<"S", "c", "o", "t", "l", "a", "n", "d", "2">>, <<"s", "c", "o", "t", "l", "a", "n", "d", "2">>, <<"S", "C", "O", "T", "L", "A", "N", "D", "2">>, <<"O", "t", "h", "e", "r">>, <<>>}
TagOf(name, ver) ==
    [patcher_name |-> <<"p">>, patcher_version |-> ver,
     modloader_name |-> name, modloader_version |-> None]
\* texts that are not a ModTag: not JSON, an array that is too short, a
\* version that is a number, no modloader_name, a name that is not a string,
\* the same field twice
BadTags ==
    { Raw(<<"x">>),
      << <<"[]", "string", <<"p">>>>, <<"[]", "string", <<"1">>>>,
         <<"[]", "string", <<"Q", "u", "e", "s", "t", "L", "o", "a", "d", "e", "r">>>> >>,
      << <<"patcher_name", "string", <<"p">>>>,
         <<"modloader_name", "string", <<"Q", "u", "e", "s", "t", "L", "o", "a", "d", "e", "r">>>>,
         <<"patcher_version", "number", <<"1">>>> >>,
      << <<"patcher_name", "string", <<"p">>>> >>,
      << <<"patcher_name", "string", <<"p">>>>, <<"modloader_name", "null", <<>>>> >>,
      << <<"patcher_name", "string", <<"p">>>>,
         <<"modloader_name", "string", <<"Q", "u", "e", "s", "t", "L", "o", "a", "d", "e", "r">>>>,
         <<"modloader_name", "string", <<"S", "c", "o", "t", "l", "a", "n", "d", "2">>>> >> }
\* a tag written by another tool: fewer fields and one more field; a field
\* of its own twice, or holding a number; the tag as an array
ForeignTags ==
    UNION {{ << <<"modloader_name", "string", n>>, <<"patcher_name", "string", <<"p">>>>,
                <<"extra", "string", <<"x">>>> >>,
             << <<"patcher_name", "string", <<"p">>>>, <<"modloader_name", "string", n>>,
                <<"extra", "string", <<"x">>>>, <<"extra", "string", <<"y">>>> >>,
             << <<"patcher_name", "string", <<"p">>>>, <<"modloader_name", "string", n>>,
                <<"extra", "number", <<"1">>>> >>,
             << <<"[]", "string", <<"p">>>>, <<"[]", "string", <<"1">>>>,
                <<"[]", "string", n>>, <<"[]", "null", <<>>>> >> } :
           n \in {<<"Q", "U", "E", "S", "T", "L", "O", "A", "D", "E", "R">>, <<"s", "c", "o", "t", "l", "a", "n", "d", "2">>}}
TagTexts ==
    {ToVecPretty(TagOf(n, v)) : n \in TagNames, v \in {None, Some(<<"1">>)}}
        \cup BadTags \cup ForeignTags
OtherEntries == {<<"c", "l", "a", "s", "s", "e", "s", ".", "d", "e", "x">>, <<"a", "s", "s", "e", "t", "s", "/", "m", "o", "d", "d", "e", "d", ".", "t", "x", "t">>, <<"M", "O", "D", "D", "E", "D">>}
TagContainers ==
    {Entries([e \in S \cup T |-> IF e = MOD_TAG_PATH THEN t ELSE Raw(e)]) :
        S \in SUBSET OtherEntries, T \in SUBSET {MOD_TAG_PATH}, t \in TagTexts}

InitTag ==
    /\ pc = "get_modloader_installed"
    /\ entry = "get_modloader_installed"
    /\ ret = NoRet
    /\ log = <<>>
    /\ fault = 0
    /\ fs = <<>>
    /\ dirs = {}
    /\ fs0 = fs
    /\ todo = {}
    /\ paths = <<>>
    /\ queue = <<>>
    /\ version_diffs = NoDiffs
    /\ idx = 0
    /\ attempt = 0
    /\ calls = <<>>
    /\ zip \in TagContainers
    /\ zipops = <<>>
    /\ stages = <<>>
    /\ libunity_path = None
    /\ modloader = "not called"
    /\ trace = <<>>
    /\ backed_up_data = FALSE
    /\ pkg = NoPkg
    /\ cmds = <<>>

NextTag == GetModloaderInstalledCall

SpecTag == InitTag /\ [][NextTag]_vars

Detected == entry = "get_modloader_installed" /\ pc = "done" /\ fault = 0
\* The container holds a tag that is a ModTag whose modloader_name is one
\* of the given spellings.
TagNamed(spellings) ==
    /\ MOD_TAG_PATH \in DOMAIN zip
    /\ JsonValid(ReadFile(zip, MOD_TAG_PATH))
    /\ \E i \in JsonFields(ReadFile(zip, MOD_TAG_PATH), "modloader_name") :
        ReadFile(zip, MOD_TAG_PATH)[i][3] \in spellings
QuestLoaderSpellings == {<<"Q", "u", "e", "s", "t", "L", "o", "a", "d", "e", "r">>, <<"q", "u", "e", "s", "t", "l", "o", "a", "d", "e", "r">>, <<"Q", "U", "E", "S", "T", "L", "O", "A", "D", "E", "R">>, <<"q", "U", "E", "S", "T", "l", "O", "A", "D", "E", "R">>}
Scotland2Spellings == {<<"S", "c", "o", "t", "l", "a", "n", "d", "2">>, <<"s", "c", "o", "t", "l", "a", "n", "d", "2">>, <<"S", "C", "O", "T", "L", "A", "N", "D", "2">>}
ModdedNames == {<<"a", "s", "s", "e", "t", "s", "/", "m", "o", "d", "d", "e", "d", ".", "t", "x", "t">>}

\* C6: a container with a valid tag naming QuestLoader in any letter case
\* is classified QuestLoader, one naming Scotland2 in any letter case
\* Scotland2; a container with no tag entry but an entry name containing
\* "modded" is Unknown; a container with neither is not installed (None).
C6_Classification ==
    Detected =>
        /\ ret = Ok
        /\ TagNamed(QuestLoaderSpellings) => modloader = "QuestLoader"
        /\ TagNamed(Scotland2Spellings) => modloader = "Scotland2"
        /\ (MOD_TAG_PATH \notin DOMAIN zip /\ DOMAIN zip \cap ModdedNames # {}) =>
                modloader = "Unknown"
        /\ (MOD_TAG_PATH \notin DOMAIN zip /\ DOMAIN zip \cap ModdedNames = {}) =>
                modloader = "None"
C6_Witness ==
    /\ Detected
    /\ TagNamed({<<"q", "U", "E", "S", "T", "l", "O", "A", "D", "E", "R">>})
    /\ modloader = "QuestLoader"

----------------------------------------------------------------------------
(* patch_manifest(zip) *)

AxmlHeader == <<"axml", "header", <<>>>>
Debuggable(v) == <<"application", "debuggable", v>>
UsesPermission(name) == <<"uses-permission", "elem", name>>
MANAGE_EXTERNAL_STORAGE == <<"a", "n", "d", "r", "o", "i", "d", ".", "p", "e", "r", "m", "i", "s", "s", "i", "o", "n", ".", "M", "A", "N", "A", "G", "E", "_", "E", "X", "T", "E", "R", "N", "A", "L", "_", "S", "T", "O", "R", "A", "G", "E">>

\* AxmlReader::new accepts a document that starts with the AXML header.
AxmlReaderNew(contents) == Len(contents) >= 1 /\ contents[1] = AxmlHeader

\* ManifestMod::new().debuggable(true).with_permission(p) applied to a
\* document: the debuggable attribute is set, the permission is declared
\* once.
ApplyMod(doc, permission) ==
    LET rest == SelectSeq(doc, LAMBDA t : t[1] # "application" /\ t # AxmlHeader)
        perm == IF \E i \in 1..Len(doc) : doc[i] = UsesPermission(permission)
                THEN <<>> ELSE <<UsesPermission(permission)>>
    IN  <<AxmlHeader, Debuggable(<<"t">>)>> \o rest \o perm

\* The patched document is in `data_output`, a cursor that stands at its
\* end when write_file gets it: the seek before the write rewinds `cursor`,
\* the reader of the old manifest.  ZipFile::write_file stores the stream
\* from its start, or from where it stands, which leaves nothing to store.
WriteFileReads == {"from_start", "from_position"}
ReadFrom(doc, w) == IF w = "from_start" THEN doc ELSE <<>>

\* The outcomes of the calls of patch_manifest that can fail on a manifest
\* that is there and well formed.
ManifestOutcomes ==
    {"ok", "read_fail", "res_ids_fail", "apply_mod_fail", "finish_fail", "write_fail"}

\* patch_manifest under outcome o, with a write_file that reads as w: the
\* error if any, the container and the operations made on it.  The write
\* comes after delete_file: no entry of the name is left for it to replace.
PatchManifest(z, o, w) ==
    IF ~ContainsFile(z, MANIFEST_PATH) \/ o = "read_fail"
    THEN [err |-> "APK had no manifest", zip |-> z, ops |-> <<>>]
    ELSE IF ~AxmlReaderNew(ReadFile(z, MANIFEST_PATH))
    THEN [err |-> "Failed to read AXML manifest", zip |-> z, ops |-> <<>>]
    ELSE IF o = "res_ids_fail"
    THEN [err |-> "ResourceIds::load", zip |-> z, ops |-> <<>>]
    ELSE IF o = "apply_mod_fail"
    THEN [err |-> "Failed to apply mod", zip |-> z, ops |-> <<>>]
    ELSE IF o = "finish_fail"
    THEN [err |-> "Failed to save AXML manifest", zip |-> z, ops |-> <<>>]
    ELSE IF o = "write_fail"
    THEN [err |-> "Failed to write modified manifest",
          zip |-> DeleteFile(z, MANIFEST_PATH),
          ops |-> << <<"delete_file", MANIFEST_PATH>>, <<"write_file", MANIFEST_PATH>> >>]
    ELSE [err |-> "",
          zip |-> WriteFile(DeleteFile(z, MANIFEST_PATH), MANIFEST_PATH,
                            ReadFrom(ApplyMod(ReadFile(z, MANIFEST_PATH),
                                              MANAGE_EXTERNAL_STORAGE), w),
                            "add"),
          ops |-> << <<"delete_file", MANIFEST_PATH>>, <<"write_file", MANIFEST_PATH>> >>]

----------------------------------------------------------------------------
(* patch_apk_in_place(path, libunity_path) *)

TEMP_APK == <<TEMP_PATH, <<"m", "b", "f", "-", "t", "m", "p", ".", "a", "p", "k">>>>
LIBUNITY_FILE == <<TEMP_PATH, <<"l", "i", "b", "u", "n", "i", "t", "y", ".", "s", "o">>>>
\* The library external_res::get_libunity_stream serves, and what is in the
\* file when the copy of the stream stopped after n of its bytes.
LibUnityBytes == <<"l", "i", "b", "u", "n", "i", "t", "y">>
LIB_UNITY == Raw(LibUnityBytes)
LibUnityCut(n) == IF n = 0 THEN <<>> ELSE Raw(SubSeq(LibUnityBytes, 1, n))

\* zip::ZipFile::open
ZipOpenOk(content) == content.magic = "zip"

\* The tag patch_apk_in_place stamps.
PatcherTagLibmainloader ==
    [patcher_name |-> <<"M", "o", "d", "s", "B", "e", "f", "o", "r", "e", "F", "r", "i", "d", "a", "y">>, patcher_version |-> Some(<<"0", ".", "1", ".", "0">>),
     modloader_name |-> <<"L", "i", "b", "m", "a", "i", "n", "l", "o", "a", "d", "e", "r">>, modloader_version |-> None]
PatcherTag ==
    [patcher_name |-> <<"M", "o", "d", "s", "B", "e", "f", "o", "r", "e", "F", "r", "i", "d", "a", "y">>, patcher_version |-> Some(<<"0", ".", "1", ".", "0">>),
     modloader_name |-> Scotland2Name, modloader_version |-> None]

\* The stages in the order of the function body.
PatchStagesSignEarly ==
    <<"patch_open", "patch_manifest", "inject_libmain", "save_and_sign_v2",
      "add_modded_tag", "inject_libunity">>
PatchStages ==
    <<"patch_open", "patch_manifest", "inject_libmain", "add_modded_tag",
      "inject_libunity", "save_and_sign_v2">>
StageAfter(st) ==
    LET i == CHOOSE k \in 1..Len(PatchStages) : PatchStages[k] = st
    IN  IF i = Len(PatchStages) THEN "patch_return" ELSE PatchStages[i + 1]

\* What is recorded of a stage that ran: its name, and whether the function
\* went on to the next one.
StageRecord(st, next_pc) ==
    <<st, IF next_pc \in {"done", "panicked"} THEN "failed" ELSE "ok">>

\* A stage failed: the `?` returns the error to the caller of
\* patch_apk_in_place, which returns it in turn.
PatchFails(e) ==
    /\ pc' = "done"
    /\ ret' = Err(e)

\* OpenOptions::open(path).expect(..) and ZipFile::open(file).unwrap(): a
\* file that cannot be opened, be it there and well formed, or that is no
\* container ends the process.
PatchOpen ==
    /\ pc = "patch_open"
    /\ \E o \in {"ok", "open_fail"} :
        /\ MayInject(o)
        /\ fault' = fault + Injected(o)
        /\ IF o = "ok" /\ TEMP_APK \in DOMAIN fs /\ ZipOpenOk(fs[TEMP_APK])
           THEN /\ zip' = fs[TEMP_APK].entries
                /\ pc' = StageAfter("patch_open")
           ELSE /\ pc' = "panicked"
                /\ UNCHANGED zip
    /\ UNCHANGED <<entry, ret, log, sysVars, zipops, libunity_path, modloader, notZip>>
    /\ stages' = Append(stages, StageRecord("patch_open", pc'))

\* patch_manifest(&mut zip).context("Failed to patch manifest")?
PatchManifestStage ==
    /\ pc = "patch_manifest"
    /\ \E o \in ManifestOutcomes, w \in WriteFileReads :
        /\ MayInject(o)
        /\ fault' = fault + Injected(o)
        /\ LET r == PatchManifest(zip, o, w)
           IN  /\ zip' = r.zip
               /\ zipops' = zipops \o r.ops
               /\ IF r.err # "" THEN PatchFails("Failed to patch manifest")
                  ELSE pc' = StageAfter("patch_manifest") /\ UNCHANGED ret
    /\ UNCHANGED <<entry, log, sysVars, libunity_path, modloader, notZip>>
    /\ stages' = Append(stages, StageRecord("patch_manifest", pc'))

\* zip.delete_file(LIB_MAIN_PATH); zip.write_file(LIB_MAIN_PATH, LIB_MAIN)?
InjectLibMain ==
    /\ pc = "inject_libmain"
    /\ zipops' = zipops \o << <<"delete_file", LIB_MAIN_PATH>>, <<"write_file", LIB_MAIN_PATH>> >>
    /\ \E o \in {"ok", "write_fail"} :
        /\ MayInject(o)
        /\ fault' = fault + Injected(o)
        /\ IF o = "ok"
           THEN /\ zip' = WriteFile(DeleteFile(zip, LIB_MAIN_PATH), LIB_MAIN_PATH,
                                    LIB_MAIN, "add")
                /\ pc' = StageAfter("inject_libmain")
                /\ UNCHANGED ret
           ELSE /\ zip' = DeleteFile(zip, LIB_MAIN_PATH)
                /\ PatchFails("write_file")
    /\ UNCHANGED <<entry, log, sysVars, libunity_path, modloader, notZip>>
    /\ stages' = Append(stages, StageRecord("inject_libmain", pc'))

\* add_modded_tag(to, tag): the tag is serialized and written at
\* MOD_TAG_PATH, "overwriting if present".
AddModdedTag(z, tag) == WriteFile(z, MOD_TAG_PATH, ToVecPretty(tag), "replace")

AddModdedTagStage ==
    /\ pc = "add_modded_tag"
    /\ zipops' = Append(zipops, <<"write_file", MOD_TAG_PATH>>)
    /\ \E o \in {"ok", "write_fail"} :
        /\ MayInject(o)
        /\ fault' = fault + Injected(o)
        /\ IF o = "ok"
           THEN /\ zip' = AddModdedTag(zip, PatcherTag)
                /\ pc' = StageAfter("add_modded_tag")
                /\ UNCHANGED ret
           ELSE /\ UNCHANGED zip
                /\ PatchFails("write_file")
    /\ UNCHANGED <<entry, log, sysVars, libunity_path, modloader, notZip>>
    /\ stages' = Append(stages, StageRecord("add_modded_tag", pc'))

\* match libunity_path: the downloaded library is written at LIB_UNITY_PATH,
\* or a warning is logged when there is none.
InjectLibUnity ==
    /\ pc = "inject_libunity"
    /\ IF libunity_path = None
       THEN /\ log' = Append(log, <<"warn", <<>>, "No unstripped unity added to the APK", 0>>)
            /\ pc' = StageAfter("inject_libunity")
            /\ UNCHANGED <<ret, fault, zip, zipops>>
       ELSE \E o \in {"ok", "open_fail", "write_fail"}, m \in WriteModes :
            /\ MayInject(o)
            /\ fault' = fault + Injected(o)
            /\ UNCHANGED log
            /\ IF libunity_path[2] \notin DOMAIN fs \/ o = "open_fail"
               THEN PatchFails("open") /\ UNCHANGED <<zip, zipops>>
               ELSE /\ zipops' = Append(zipops, <<"write_file", LIB_UNITY_PATH>>)
                    /\ IF o = "ok"
                       THEN /\ zip' = WriteFile(zip, LIB_UNITY_PATH, fs[libunity_path[2]], m)
                            /\ pc' = StageAfter("inject_libunity")
                            /\ UNCHANGED ret
                       ELSE /\ UNCHANGED zip
                            /\ PatchFails("write_file")
    /\ UNCHANGED <<entry, sysVars, libunity_path, modloader, notZip>>
    /\ stages' = Append(stages, StageRecord("inject_libunity", pc'))

\* zip.save_and_sign_v2(&cert, &priv_key).context("Failed to save APK")?:
\* the entries and the signature are written to the package file.
SaveAndSign ==
    /\ pc = "save_and_sign_v2"
    /\ zipops' = Append(zipops, <<"save_and_sign_v2", <<>>>>)
    /\ \E o \in {"ok", "save_fail"} :
        /\ MayInject(o)
        /\ fault' = fault + Injected(o)
        /\ IF o = "ok"
           THEN /\ fs' = Put(fs, TEMP_APK, Apk(zip, TRUE))
                /\ pc' = StageAfter("save_and_sign_v2")
                /\ UNCHANGED ret
           ELSE /\ fs' = Put(fs, TEMP_APK, BadApk)
                /\ PatchFails("Failed to save APK")
    /\ UNCHANGED <<entry, log, dirs, fs0, zip, libunity_path, modloader, notZip>>
    /\ stages' = Append(stages, StageRecord("save_and_sign_v2", pc'))

\* Ok(()): back in the caller.
PatchReturn ==
    /\ pc = "patch_return"
    /\ pc' = IF entry = "mod_current_apk" THEN ModAfter("call_patch") ELSE "done"
    /\ ret' = IF entry = "mod_current_apk" THEN ret ELSE Ok
    /\ UNCHANGED <<entry, log, fault, sysVars, zipVars, notZip>>

(* patch_apk_in_place on any package file: missing, no container, or a    *)
(* container with or without a manifest, a libmain, an older tag, a        *)
(* libunity; with or without a downloaded libunity.so.                     *)

OldLib == Raw(<<"o", "l", "d">>)
Manifests ==
    { Raw(<<"x">>),
      <<AxmlHeader, Debuggable(<<"f">>)>>,
      <<AxmlHeader, UsesPermission(<<"n", "e", "t">>)>>,
      <<AxmlHeader, Debuggable(<<"t">>), UsesPermission(MANAGE_EXTERNAL_STORAGE)>> }
PatchContainers ==
    {Entries([e \in S |-> IF e = MANIFEST_PATH THEN m
                  ELSE IF e = MOD_TAG_PATH THEN ToVecPretty(TagOf(QuestLoaderName, None))
                  ELSE OldLib]) :
        S \in SUBSET {MANIFEST_PATH, LIB_MAIN_PATH, MOD_TAG_PATH, LIB_UNITY_PATH},
        m \in Manifests}

InitPatch ==
    /\ pc = "patch_open"
    /\ entry = "patch_apk_in_place"
    /\ ret = NoRet
    /\ log = <<>>
    /\ fault = 0
    /\ dirs = {TEMP_PATH}
    /\ \E F \in SUBSET {LIBUNITY_FILE} :
        \/ fs = [q \in F |-> LIB_UNITY]
        \/ \E c \in PatchContainers \cup {<<>>} :
            fs = [q \in F \cup {TEMP_APK} |->
                    IF q = LIBUNITY_FILE THEN LIB_UNITY
                    ELSE IF c = <<>> THEN BadApk ELSE Apk(c, TRUE)]
    /\ fs0 = fs
    /\ todo = {}
    /\ paths = <<>>
    /\ queue = <<>>
    /\ version_diffs = NoDiffs
    /\ idx = 0
    /\ attempt = 0
    /\ calls = <<>>
    /\ zip = <<>>
    /\ zipops = <<>>
    /\ stages = <<>>
    /\ libunity_path \in {None, Some(LIBUNITY_FILE)}
    /\ modloader = "not called"
    /\ trace = <<>>
    /\ backed_up_data = FALSE
    /\ pkg = NoPkg
    /\ cmds = <<>>

NextPatch ==
    \/ PatchOpen
    \/ PatchManifestStage
    \/ InjectLibMain
    \/ AddModdedTagStage
    \/ InjectLibUnity
    \/ SaveAndSign
    \/ PatchReturn

SpecPatch == InitPatch /\ [][NextPatch]_vars

Patched == entry = "patch_apk_in_place" /\ pc = "done" /\ ret = Ok

\* C7: after patch_apk_in_place succeeded, the package file is a container
\* with the bundled library at lib/arm64-v8a/libmain.so and, at modded.json,
\* a tag that decodes into a ModTag whose modloader_name is "Scotland2";
\* get_modloader_installed on it returns Scotland2.
C7_PatchedContainer ==
    Patched =>
        LET apk == fs[TEMP_APK]
        IN  /\ apk.magic = "zip"
            /\ LIB_MAIN_PATH \in DOMAIN apk.entries
            /\ apk.entries[LIB_MAIN_PATH] = <<LIB_MAIN>>
            /\ MOD_TAG_PATH \in DOMAIN apk.entries
            /\ JsonValid(ReadFile(apk.entries, MOD_TAG_PATH))
            /\ FromSlice(ReadFile(apk.entries, MOD_TAG_PATH)).modloader_name = <<"S", "c", "o", "t", "l", "a", "n", "d", "2">>
            /\ GetModloaderInstalled(apk.entries, "ok") = [ret |-> Ok, val |-> "Scotland2"]
\* a package that had a libmain of its own and no tag was patched
C7_Witness ==
    /\ Patched
    /\ LIB_MAIN_PATH \in DOMAIN fs0[TEMP_APK].entries
    /\ MOD_TAG_PATH \notin DOMAIN fs0[TEMP_APK].entries

\* C8: the stages of patch_apk_in_place begin in the order open, patch
\* manifest, inject libmain, stamp tag, libunity, save-and-sign, a stage
\* only after every earlier one succeeded, and save_and_sign_v2 is the last
\* operation on the container handle.
C8_StrictStages ==
    entry = "patch_apk_in_place" =>
        /\ Len(stages) <= 6
        /\ \A k \in 1..Len(stages) :
            stages[k][1] = <<"patch_open", "patch_manifest", "inject_libmain",
                             "add_modded_tag", "inject_libunity", "save_and_sign_v2">>[k]
        /\ \A k \in 1..(Len(stages) - 1) : stages[k][2] = "ok"
        /\ \A k \in 1..Len(zipops) :
            zipops[k][1] = "save_and_sign_v2" => k = Len(zipops)
C8_Witness ==
    /\ Patched
    /\ Len(stages) = 6
    /\ zipops[Len(zipops)][1] = "save_and_sign_v2"
    /\ \E k \in 1..Len(zipops) : zipops[k] = <<"write_file", LIB_UNITY_PATH>>

\* C17: every failure of a stage of patch_apk_in_place reaches the caller
\* as an error value: no stage ends the process by a panic, a failed stage
\* makes the function return an error, and a failure in patch_manifest is
\* reported as the manifest error.
C17_FailuresPropagate ==
    entry = "patch_apk_in_place" =>
        /\ pc # "panicked"
        /\ \A k \in DOMAIN stages :
            stages[k][2] = "failed" => (pc = "done" /\ ~ret.ok /\ ret.err # "")
        /\ \A k \in DOMAIN stages :
            stages[k] = <<"patch_manifest", "failed">> =>
                ret.err = "Failed to patch manifest"

\* The entries patch_apk_in_place writes in a run.
WrittenNames ==
    {MANIFEST_PATH, LIB_MAIN_PATH, MOD_TAG_PATH}
        \cup (IF libunity_path = None THEN {} ELSE {LIB_UNITY_PATH})

\* C19: the pipeline leaves one entry per name.  For every input container,
\* also one that already has a modded.json or a libunity.so entry, each
\* well-known entry written is in the saved container once, with the newly
\* written content, and the other entries are as they were.  The manifest
\* and libmain writes follow a delete_file and the tag is written
\* "overwriting if present"; for the libunity write, and for the content
\* stored as the manifest, the statement rests on what ZipFile::write_file
\* does with a name the container has and with a stream that stands at its
\* end (WriteModes, WriteFileReads).
C19_WritesReplace ==
    Patched =>
        LET e == fs[TEMP_APK].entries
            e0 == fs0[TEMP_APK].entries
        IN  /\ DOMAIN e = DOMAIN e0 \cup WrittenNames
            /\ e[MANIFEST_PATH] =
                    <<ApplyMod(ReadFile(e0, MANIFEST_PATH), MANAGE_EXTERNAL_STORAGE)>>
            /\ e[LIB_MAIN_PATH] = <<LIB_MAIN>>
            /\ e[MOD_TAG_PATH] = <<ToVecPretty(PatcherTag)>>
            /\ libunity_path # None => e[LIB_UNITY_PATH] = <<fs0[LIBUNITY_FILE]>>
            /\ \A n \in DOMAIN e0 \ WrittenNames : e[n] = e0[n]
\* C19 with a write_file that replaces and reads its stream from the start.
C19_Replacing ==
    (Patched /\ \A n \in DOMAIN fs[TEMP_APK].entries :
                    Len(fs[TEMP_APK].entries[n]) = 1
             /\ fs[TEMP_APK].entries[MANIFEST_PATH] # << <<>> >>)
        => C19_WritesReplace
\* An input with an entry at libunity.so, patched with a downloaded one.
C19_Case ==
    /\ Patched
    /\ LIB_UNITY_PATH \in DOMAIN fs0[TEMP_APK].entries
    /\ libunity_path # None

----------------------------------------------------------------------------
(* The backup/restore round trip: save_obbs, then restore_obb_files on the *)
(* paths it returned, as mod_current_apk chains them.                      *)

\* The install directory: any of the bundles, with any content, and any of
\* the other files.
ObbFileSystems ==
    {[p \in DOMAIN g \cup {Join(APP_OBB_PATH, n) : n \in S} |->
          IF p \in DOMAIN g THEN g[p] ELSE <<100>>] :
        g \in UNION {[{Join(APP_OBB_PATH, n) : n \in B} -> Datas] : B \in SUBSET ObbNames},
        S \in SUBSET OtherNames}

InitObb ==
    /\ pc = "save_obbs"
    /\ entry = "save_then_restore"
    /\ ret = NoRet
    /\ log = <<>>
    /\ fault = 0
    /\ fs \in ObbFileSystems
    /\ dirs \in {{APP_OBB_PATH, TEMP_PATH, OBB_BACKUP}, {APP_OBB_PATH, TEMP_PATH}}
    /\ fs0 = fs
    /\ todo = {}
    /\ paths = <<>>
    /\ queue = <<>>
    /\ version_diffs = NoDiffs
    /\ idx = 0
    /\ attempt = 0
    /\ calls = <<>>
    /\ zip = <<>>
    /\ zipops = <<>>
    /\ stages = <<>>
    /\ libunity_path = None
    /\ modloader = "not called"
    /\ trace = <<>>
    /\ backed_up_data = FALSE
    /\ pkg = NoPkg
    /\ cmds = <<>>

NextObb ==
    \/ SaveObbsReadDir
    \/ SaveObbsEntry
    \/ SaveObbsReturn
    \/ RestoreObbCreateDir
    \/ RestoreObbEntry
    \/ RestoreObbReturn

SpecObb == InitObb /\ [][NextObb]_vars

\* The bundles and the other files of the install directory at the start.
Bundles0 == {p \in DOMAIN fs0 : Parent(p) = APP_OBB_PATH /\ IsObb(FileName(p))}
Others0 == {p \in DOMAIN fs0 : Parent(p) = APP_OBB_PATH /\ ~IsObb(FileName(p))}
RoundTripDone == entry = "save_then_restore" /\ pc = "done"

\* C1: backup then restore is a round trip.  With an existing backup
\* directory and no I/O failure, save_obbs followed by restore_obb_files on
\* the returned paths succeeds, every .obb file is back at its original path
\* with its original content, and every other file was left untouched.
C1_RoundTrip ==
    (RoundTripDone /\ fault = 0 /\ OBB_BACKUP \in dirs) =>
        /\ ret = Ok
        /\ \A p \in Bundles0 : Same(p)
        /\ \A p \in Others0 :
            Same(p) /\ Join(OBB_BACKUP, FileName(p)) \notin DOMAIN fs

----------------------------------------------------------------------------
(* restore_obb_files alone, on a list of backup copies: the contents of    *)
(* `obb_backups` that its comment says it copies back to `restore_dir`.    *)

\* The orderings of a set of paths.
Orderings(S) ==
    {sq \in [1..Cardinality(S) -> S] : \A i, j \in DOMAIN sq : sq[i] = sq[j] => i = j}

\* The backup directory: any of the bundles, with any content.
BackupFileSystems ==
    UNION {[{Join(OBB_BACKUP, n) : n \in B} -> Datas] : B \in SUBSET ObbNames}

InitRestore ==
    /\ pc = "restore_obb_files"
    /\ entry = "restore_obb_files"
    /\ ret = NoRet
    /\ log = <<>>
    /\ fault = 0
    /\ fs \in BackupFileSystems
    /\ dirs \in {{APP_OBB_PATH, TEMP_PATH, OBB_BACKUP}, {TEMP_PATH, OBB_BACKUP}}
    /\ fs0 = fs
    /\ todo = {}
    /\ paths \in Orderings(DOMAIN fs)
    /\ queue = <<>>
    /\ version_diffs = NoDiffs
    /\ idx = 0
    /\ attempt = 0
    /\ calls = <<>>
    /\ zip = <<>>
    /\ zipops = <<>>
    /\ stages = <<>>
    /\ libunity_path = None
    /\ modloader = "not called"
    /\ trace = <<>>
    /\ backed_up_data = FALSE
    /\ pkg = NoPkg
    /\ cmds = <<>>

NextRestore ==
    \/ RestoreObbCreateDir
    \/ RestoreObbEntry
    \/ RestoreObbReturn

SpecRestore == InitRestore /\ [][NextRestore]_vars

\* restore_obb_files has returned Ok.
Restored == entry = "restore_obb_files" /\ pc = "done" /\ ret = Ok
\* The log has a warning or an error.
FailureLogged == \E k \in DOMAIN log : log[k][1] \in {"warn", "error"}

\* C12: in restore_obb_files each bundle copied back has its backup copy
\* deleted; a delete that fails does not fail the run (every bundle is
\* restored and Ok is returned), and it is logged.
C12_DeleteFailureLogged ==
    /\ (entry = "restore_obb_files" /\ pc = "done" /\ fault = 0) => ret = Ok
    /\ Restored =>
        /\ \A p \in DOMAIN fs0 :
            /\ Join(APP_OBB_PATH, FileName(p)) \in DOMAIN fs
            /\ fs[Join(APP_OBB_PATH, FileName(p))] = fs0[p]
        /\ (\E p \in DOMAIN fs0 : p \in DOMAIN fs) => FailureLogged

----------------------------------------------------------------------------
(* The two moves: a run of save_obbs then restore_obb_files on an install  *)
(* directory, or a run of restore_obb_files on a backup directory.         *)

InitMoves == InitObb \/ InitRestore

NextMoves ==
    \/ SaveObbsReadDir
    \/ SaveObbsEntry
    \/ SaveObbsReturn
    \/ RestoreObbCreateDir
    \/ RestoreObbEntry
    \/ RestoreObbReturn

SpecMoves == InitMoves /\ [][NextMoves]_vars

\* The bytes of the bundle that was at p are in the install directory or in
\* the backup directory, under its file name.
Kept(p) ==
    \E d \in {APP_OBB_PATH, OBB_BACKUP} :
        /\ Join(d, FileName(p)) \in DOMAIN fs
        /\ fs[Join(d, FileName(p))] = fs0[p]

\* C18: no bundle is lost by a move.  In every state of save_obbs and of
\* restore_obb_files, on failure paths too, the bytes of every .obb file
\* that was there at the start are in the install directory or in the
\* backup directory: a move copies first and deletes the original only
\* after the copy succeeded.
C18_NeverLost ==
    \A p \in DOMAIN fs0 : IsObb(FileName(p)) => Kept(p)
\* a bundle was moved to the backup directory and a later move failed
C18_Witness ==
    /\ entry = "save_then_restore"
    /\ pc = "done"
    /\ ret = Err("copy")
    /\ \E p \in Bundles0 : p \notin DOMAIN fs /\ Join(OBB_BACKUP, FileName(p)) \in DOMAIN fs
    /\ \E p \in Bundles0 : p \in DOMAIN fs

----------------------------------------------------------------------------
(* mod_current_apk(app_info) and reinstall_modded_app(temp_apk_path) *)

APP_DATA_PATH == "data"
AppInfoPath == <<"app", <<"b", "a", "s", "e", ".", "a", "p", "k">>>>                \* app_info.path
PLAYER_DATA == <<APP_DATA_PATH, <<"P", "l", "a", "y", "e", "r", "D", "a", "t", "a", ".", "d", "a", "t">>>>
PLAYER_BACKUP == <<TEMP_PATH, <<"P", "l", "a", "y", "e", "r", "D", "a", "t", "a", ".", "b", "a", "c", "k", "u", "p">>>>

\* A step failed: the `?` returns the error.
ModFails(e) ==
    /\ pc' = "done"
    /\ ret' = Err(e)

\* std::fs::create_dir_all(TEMP_PATH)?
ModCreateTemp ==
    /\ pc = "create_temp"
    /\ \E o \in {"ok", "create_dir_fail"} :
        /\ MayInject(o)
        /\ fault' = fault + Injected(o)
        /\ IF o = "ok"
           THEN /\ dirs' = dirs \cup {TEMP_PATH}
                /\ pc' = ModAfter("create_temp")
                /\ UNCHANGED ret
           ELSE UNCHANGED dirs /\ ModFails("create_dir_all")
    /\ trace' = Append(trace, StageRecord("create_temp", pc'))
    /\ UNCHANGED <<entry, log, fs, fs0, zipVars, backed_up_data, pkg, cmds, notMod>>

\* save_libunity(temp_path, app_info).context("Failed to save libunity.so")?:
\* the repository has no libunity for the version ("none"), or its stream is
\* copied to temp_path/libunity.so ("some").  The call fails when the stream
\* cannot be had ("stream_err"), when the file cannot be opened
\* ("open_fail"), or when the copy stops, the stream or the write failing,
\* after n bytes ("write_fail"): the file, truncated when it was opened,
\* then holds those n bytes.
ModSaveLibunity ==
    /\ pc = "save_libunity"
    /\ \E o \in {"none", "some", "stream_err", "open_fail", "write_fail"},
          n \in 0..Len(LibUnityBytes) :
        /\ o # "write_fail" => n = 0
        /\ MayInject(IF o \in {"none", "some"} THEN "ok" ELSE o)
        /\ fault' = fault + (IF o \in {"none", "some"} THEN 0 ELSE 1)
        /\ IF o = "none"
           THEN /\ libunity_path' = None
                /\ pc' = ModAfter("save_libunity")
                /\ UNCHANGED <<fs, ret>>
           ELSE IF o = "some" /\ TEMP_PATH \in dirs
           THEN /\ libunity_path' = Some(LIBUNITY_FILE)
                /\ fs' = Put(fs, LIBUNITY_FILE, LIB_UNITY)
                /\ pc' = ModAfter("save_libunity")
                /\ UNCHANGED ret
           ELSE /\ fs' = IF o = "write_fail" /\ TEMP_PATH \in dirs
                         THEN Put(fs, LIBUNITY_FILE, LibUnityCut(n)) ELSE fs
                /\ ModFails("Failed to save libunity.so")
                /\ UNCHANGED libunity_path
    /\ trace' = Append(trace, StageRecord("save_libunity", pc'))
    /\ UNCHANGED <<entry, log, dirs, fs0, zip, zipops, stages, modloader,
                   backed_up_data, pkg, cmds, notMod>>

\* std::fs::copy(&app_info.path, &temp_apk_path).context(..)?
ModCopyApk ==
    /\ pc = "copy_apk"
    /\ \E o \in CopyOutcomes :
      \E n \in Cuts(fs, AppInfoPath, o) :
        /\ MayInject(o)
        /\ fault' = fault + Injected(o)
        /\ LET cp == FsCopy(fs, dirs, AppInfoPath, TEMP_APK, o, n)
           IN  /\ fs' = cp.fs
               /\ IF cp.ok THEN pc' = ModAfter("copy_apk") /\ UNCHANGED ret
                  ELSE ModFails("Failed to copy APK to temp")
    /\ trace' = Append(trace, StageRecord("copy_apk", pc'))
    /\ UNCHANGED <<entry, log, dirs, fs0, zipVars, backed_up_data, pkg, cmds, notMod>>

\* save_obbs(Path::new(APP_OBB_PATH), &obb_backup)?
ModCallSaveObbs ==
    /\ pc = "call_save_obbs"
    /\ pc' = "save_obbs"
    /\ trace' = Append(trace, StageRecord("call_save_obbs", pc'))
    /\ UNCHANGED <<entry, ret, log, fault, sysVars, zipVars, backed_up_data, pkg,
                   cmds, notMod>>

\* Path::exists(): true when the metadata of the path can be read; false
\* when the file is not there and when reading its metadata fails.
PathExists(f, path, o) == path \in DOMAIN f /\ o # "exists_err"

\* if player_data_path.exists() { copy(player_data_path, player_data_backup)? }
ModBackupPlayerData ==
    /\ pc = "backup_player_data"
    /\ IF PLAYER_DATA \in DOMAIN fs
       THEN \E o \in CopyOutcomes \cup {"exists_err"} :
          \E n \in Cuts(fs, PLAYER_DATA, o) :
            /\ MayInject(o)
            /\ fault' = fault + Injected(o)
            /\ IF PathExists(fs, PLAYER_DATA, o)
               THEN LET cp == FsCopy(fs, dirs, PLAYER_DATA, PLAYER_BACKUP, o, n)
                    IN  /\ fs' = cp.fs
                        /\ backed_up_data' = cp.ok
                        /\ IF cp.ok
                           THEN pc' = ModAfter("backup_player_data") /\ UNCHANGED ret
                           ELSE ModFails("copy")
                        /\ trace' = Append(trace, StageRecord("backup_player_data", pc'))
               ELSE /\ backed_up_data' = FALSE
                    /\ pc' = ModAfter("backup_player_data")
                    /\ trace' = Append(trace, <<"backup_player_data", "skipped">>)
                    /\ UNCHANGED <<fs, ret>>
       ELSE /\ backed_up_data' = FALSE
            /\ pc' = ModAfter("backup_player_data")
            /\ trace' = Append(trace, <<"backup_player_data", "skipped">>)
            /\ UNCHANGED <<fs, ret, fault>>
    /\ UNCHANGED <<entry, log, dirs, fs0, zipVars, pkg, cmds, notMod>>

\* patch_apk_in_place(&temp_apk_path, libunity_path)?
ModCallPatch ==
    /\ pc = "call_patch"
    /\ pc' = "patch_open"
    /\ trace' = Append(trace, StageRecord("call_patch", pc'))
    /\ UNCHANGED <<entry, ret, log, fault, sysVars, zipVars, backed_up_data, pkg,
                   cmds, notMod>>

\* Command::output(): Err when the command cannot be started, Ok with the
\* exit status otherwise; the callers read neither status nor output.
CommandOutcomes == {"exit_0", "exit_nonzero", "spawn_fail"}
\* A caller that would read the exit status, which the claim on exit
\* statuses must tell from the code's.
CommandOkStrict(o) == o = "exit_0"
CommandOk(o) == o # "spawn_fail"

\* What a successful uninstall removes: the package and its directories.
AppDirs == {"app", APP_OBB_PATH, APP_DATA_PATH}
Wiped(f) == [q \in {x \in DOMAIN f : Parent(x) \notin AppDirs} |-> f[q]]

\* pm uninstall APK_ID
Uninstall ==
    /\ pc = "uninstall"
    /\ \E oo \in CommandOutcomes :
        LET o == IF pkg.app = "none" /\ oo = "exit_0" THEN "exit_nonzero" ELSE oo
        IN  /\ MayInject(IF oo = "exit_0" THEN "ok" ELSE oo)
            /\ fault' = fault + (IF oo = "exit_0" THEN 0 ELSE 1)
            /\ cmds' = Append(cmds, <<"pm uninstall", o>>)
            /\ IF o = "exit_0"
               THEN /\ pkg' = NoPkg
                    /\ fs' = Wiped(fs)
                    /\ dirs' = dirs \ AppDirs
               ELSE UNCHANGED <<pkg, fs, dirs>>
            /\ IF CommandOk(o) THEN pc' = ModAfter("uninstall") /\ UNCHANGED ret
               ELSE ModFails("Failed to uninstall vanilla APK")
    /\ trace' = Append(trace, StageRecord("uninstall", pc'))
    /\ UNCHANGED <<entry, log, fs0, zipVars, backed_up_data, notMod>>

\* pm install temp_apk_path: the platform installs a signed package when
\* none is installed.
Installable ==
    /\ pkg.app = "none"
    /\ TEMP_APK \in DOMAIN fs
    /\ fs[TEMP_APK].magic = "zip"
    /\ fs[TEMP_APK].signed

Install ==
    /\ pc = "install"
    /\ \E oo \in CommandOutcomes :
        LET o == IF ~Installable /\ oo = "exit_0" THEN "exit_nonzero" ELSE oo
        IN  /\ MayInject(IF oo = "exit_0" THEN "ok" ELSE oo)
            /\ fault' = fault + (IF oo = "exit_0" THEN 0 ELSE 1)
            /\ cmds' = Append(cmds, <<"pm install", o>>)
            /\ pkg' = IF o = "exit_0" THEN [app |-> "modded", perm |-> FALSE] ELSE pkg
            /\ IF CommandOk(o) THEN pc' = ModAfter("install") /\ UNCHANGED ret
               ELSE ModFails("Failed to install modded APK")
    /\ trace' = Append(trace, StageRecord("install", pc'))
    /\ UNCHANGED <<entry, log, sysVars, zipVars, backed_up_data, notMod>>

\* appops set --uid APK_ID MANAGE_EXTERNAL_STORAGE allow
GrantPermission ==
    /\ pc = "grant_permission"
    /\ \E oo \in CommandOutcomes :
        LET o == IF pkg.app = "none" /\ oo = "exit_0" THEN "exit_nonzero" ELSE oo
        IN  /\ MayInject(IF oo = "exit_0" THEN "ok" ELSE oo)
            /\ fault' = fault + (IF oo = "exit_0" THEN 0 ELSE 1)
            /\ cmds' = Append(cmds, <<"appops set", o>>)
            /\ pkg' = IF o = "exit_0" THEN [pkg EXCEPT !.perm = TRUE] ELSE pkg
            /\ IF CommandOk(o) THEN pc' = ModAfter("grant_permission") /\ UNCHANGED ret
               ELSE ModFails("appops")
    /\ trace' = Append(trace, StageRecord("grant_permission", pc'))
    /\ UNCHANGED <<entry, log, sysVars, zipVars, backed_up_data, notMod>>

\* restore_obb_files(Path::new(APP_OBB_PATH), obb_backups)?
ModCallRestore ==
    /\ pc = "call_restore"
    /\ pc' = "restore_obb_files"
    /\ trace' = Append(trace, StageRecord("call_restore", pc'))
    /\ UNCHANGED <<entry, ret, log, fault, sysVars, zipVars, backed_up_data, pkg,
                   cmds, notMod>>

\* std::fs::remove_file(temp_apk_path)?
ModRemoveTempApk ==
    /\ pc = "remove_temp_apk"
    /\ \E o \in {"ok", "remove_fail"} :
        /\ MayInject(o)
        /\ fault' = fault + Injected(o)
        /\ LET rm == FsRemove(fs, TEMP_APK, o)
           IN  /\ fs' = rm.fs
               /\ IF rm.ok THEN pc' = ModAfter("remove_temp_apk") /\ UNCHANGED ret
                  ELSE ModFails("remove_file")
    /\ trace' = Append(trace, StageRecord("remove_temp_apk", pc'))
    /\ UNCHANGED <<entry, log, dirs, fs0, zipVars, backed_up_data, pkg, cmds, notMod>>

\* if backed_up_data { create_dir_all(APP_DATA_PATH)?; copy(backup, path)? }
ModRestorePlayerData ==
    /\ pc = "restore_player_data"
    /\ IF backed_up_data
       THEN \E o \in CopyOutcomes \cup {"create_dir_fail"} :
          \E n \in Cuts(fs, PLAYER_BACKUP, o) :
            /\ MayInject(o)
            /\ fault' = fault + Injected(o)
            /\ IF o = "create_dir_fail"
               THEN UNCHANGED <<fs, dirs>> /\ ModFails("create_dir_all")
               ELSE LET cp == FsCopy(fs, dirs \cup {APP_DATA_PATH}, PLAYER_BACKUP,
                                     PLAYER_DATA, o, n)
                    IN  /\ dirs' = dirs \cup {APP_DATA_PATH}
                        /\ fs' = cp.fs
                        /\ IF cp.ok
                           THEN pc' = ModAfter("restore_player_data") /\ UNCHANGED ret
                           ELSE ModFails("copy")
            /\ trace' = Append(trace, StageRecord("restore_player_data", pc'))
       ELSE /\ pc' = ModAfter("restore_player_data")
            /\ trace' = Append(trace, <<"restore_player_data", "skipped">>)
            /\ UNCHANGED <<fs, dirs, ret, fault>>
    /\ UNCHANGED <<entry, log, fs0, zipVars, backed_up_data, pkg, cmds, notMod>>

\* Ok(())
ModReturn ==
    /\ pc = "mod_return"
    /\ pc' = "done"
    /\ ret' = Ok
    /\ UNCHANGED <<entry, log, fault, sysVars, zipVars, modVars, notMod>>

----------------------------------------------------------------------------
(* A run of mod_current_apk on an installed package: with any bundles and  *)
(* possibly a DLC file in the install directory, with or without           *)
(* PlayerData.dat, with or without an existing backup directory.           *)

VanillaApk ==
    Apk(Entries([e \in {MANIFEST_PATH, LIB_MAIN_PATH} |->
            IF e = MANIFEST_PATH THEN <<AxmlHeader, Debuggable(<<"f">>)>> ELSE OldLib]),
        TRUE)
ModFileSystems ==
    {[q \in DOMAIN g \cup D \cup P \cup {AppInfoPath} |->
          IF q = AppInfoPath THEN a
          ELSE IF q \in DOMAIN g THEN g[q]
          ELSE <<100>>] :
        g \in UNION {[{Join(APP_OBB_PATH, n) : n \in B} -> Datas] : B \in SUBSET ObbNames},
        D \in SUBSET {Join(APP_OBB_PATH, <<"d", "l", "c">>)},
        P \in SUBSET {PLAYER_DATA},
        a \in {VanillaApk, BadApk}}

InitMod ==
    /\ pc = "create_temp"
    /\ entry = "mod_current_apk"
    /\ ret = NoRet
    /\ log = <<>>
    /\ fault = 0
    /\ fs \in ModFileSystems
    /\ dirs \in {AppDirs, AppDirs \cup {TEMP_PATH, OBB_BACKUP}}
    /\ fs0 = fs
    /\ todo = {}
    /\ paths = <<>>
    /\ queue = <<>>
    /\ version_diffs = NoDiffs
    /\ idx = 0
    /\ attempt = 0
    /\ calls = <<>>
    /\ zip = <<>>
    /\ zipops = <<>>
    /\ stages = <<>>
    /\ libunity_path = None
    /\ modloader = "not called"
    /\ trace = <<>>
    /\ backed_up_data = FALSE
    /\ pkg = [app |-> "vanilla", perm |-> FALSE]
    /\ cmds = <<>>

NextMod ==
    \/ ModCreateTemp
    \/ ModSaveLibunity
    \/ ModCopyApk
    \/ ModCallSaveObbs
    \/ SaveObbsReadDir
    \/ SaveObbsEntry
    \/ SaveObbsReturn
    \/ ModBackupPlayerData
    \/ ModCallPatch
    \/ PatchOpen
    \/ PatchManifestStage
    \/ InjectLibMain
    \/ AddModdedTagStage
    \/ InjectLibUnity
    \/ SaveAndSign
    \/ PatchReturn
    \/ Uninstall
    \/ Install
    \/ GrantPermission
    \/ ModCallRestore
    \/ RestoreObbCreateDir
    \/ RestoreObbEntry
    \/ RestoreObbReturn
    \/ ModRemoveTempApk
    \/ ModRestorePlayerData
    \/ ModReturn

SpecMod == InitMod /\ [][NextMod]_vars

\* The steps in the order the claim gives them.
ClaimedOrder ==
    <<"create_temp", "save_libunity", "copy_apk", "call_save_obbs",
      "backup_player_data", "call_patch", "uninstall", "install",
      "grant_permission", "call_restore", "remove_temp_apk", "restore_player_data">>
C5_Order ==
    entry = "mod_current_apk" =>
        /\ Len(trace) <= Len(ClaimedOrder)
        /\ \A k \in 1..Len(trace) : trace[k][1] = ClaimedOrder[k]
        /\ \A k \in 1..(Len(trace) - 1) : trace[k][2] # "failed"
        /\ \A k \in 1..Len(trace) :
            /\ trace[k] = <<"backup_player_data", "skipped">> => PLAYER_DATA \notin DOMAIN fs0
            /\ trace[k] = <<"backup_player_data", "ok">> => PLAYER_DATA \in DOMAIN fs0
            /\ trace[k] = <<"restore_player_data", "skipped">> => PLAYER_DATA \notin DOMAIN fs0
            /\ trace[k][1] = "restore_player_data" /\ trace[k][2] # "skipped" =>
                    PLAYER_DATA \in DOMAIN fs0
\* A step begins only while no earlier step, nor a function it called, has
\* returned an error or ended the process.
C5_StepBegins == trace' # trace => (ret = NoRet /\ pc \notin {"done", "panicked"})

\* C5: mod_current_apk runs its steps in the fixed order: temp workspace,
\* libunity, copy of the package, bundle backup, state backup if the state
\* file is present, mutation pipeline, uninstall, install, permission grant,
\* bundle restore, removal of the temp package, state restore if it was
\* backed up; each step only after all earlier steps succeeded.
C5_FixedOrder == []C5_Order /\ [][C5_StepBegins]_vars
C5_Witness ==
    /\ entry = "mod_current_apk"
    /\ pc = "done"
    /\ ret = Ok
    /\ Len(trace) = 12
    /\ trace[12] = <<"restore_player_data", "ok">>
    /\ cmds = << <<"pm uninstall", "exit_0">>, <<"pm install", "exit_0">>,
                 <<"appops set", "exit_0">> >>

\* The run has ended: mod_current_apk returned, or the process ended.
ModEnded == entry = "mod_current_apk" /\ pc \in {"done", "panicked"}
ModSucceeded == entry = "mod_current_apk" /\ pc = "done" /\ ret = Ok
\* The record of a step in the trace, <<>> when the step did not begin.
StepRecord(step) ==
    IF \E k \in DOMAIN trace : trace[k][1] = step
    THEN trace[CHOOSE k \in DOMAIN trace : trace[k][1] = step]
    ELSE <<>>
LastStep == IF trace = <<>> THEN "" ELSE trace[Len(trace)][1]

\* C13: when mod_current_apk returns success no transient backup file of
\* the run remains in the temp workspace: no bundle backup copy, no
\* PlayerData.backup, no temp package copy.
C13_BackupsCleaned ==
    ModSucceeded =>
        /\ \A p \in DOMAIN fs : Parent(p) # OBB_BACKUP
        /\ PLAYER_BACKUP \notin DOMAIN fs
        /\ TEMP_APK \notin DOMAIN fs

\* C14: there is no rollback.  When the mutation pipeline, the uninstall,
\* the install or the permission grant fails, mod_current_apk returns that
\* failure at once, neither restore_obb_files nor the state restore runs,
\* and the bundles that were backed up stay out of the install directory.
C14_NoRollback ==
    (ModEnded /\ LastStep \in {"call_patch", "uninstall", "install", "grant_permission"}) =>
        /\ pc = "done"
        /\ ~ret.ok
        /\ StepRecord("call_restore") = <<>>
        /\ StepRecord("restore_player_data") = <<>>
        /\ \A k \in DOMAIN paths : paths[k] \notin DOMAIN fs

\* C15: a non-zero exit status of pm uninstall or pm install counts as
\* success.  reinstall_modded_app fails only when a command cannot be
\* started: after a command that exited non-zero the run goes on to the next
\* step, and an uninstall or install failure is returned only for a command
\* that did not start.
C15_ExitStatusIgnored ==
    entry = "mod_current_apk" =>
        /\ \A k \in DOMAIN cmds :
            cmds[k][2] = "exit_nonzero" =>
                StepRecord(ModSteps[6 + k])[2] = "ok"
        /\ (pc = "done" /\ LastStep \in {"uninstall", "install"}) =>
                /\ cmds[Len(cmds)][2] = "spawn_fail"
                /\ ret.err = (IF LastStep = "uninstall"
                              THEN "Failed to uninstall vanilla APK"
                              ELSE "Failed to install modded APK")
C15_Witness ==
    /\ ModSucceeded
    /\ cmds = << <<"pm uninstall", "exit_nonzero">>, <<"pm install", "exit_nonzero">>,
                 <<"appops set", "exit_0">> >>
    /\ StepRecord("call_restore") = <<"call_restore", "ok">>
    /\ StepRecord("restore_player_data") = <<"restore_player_data", "ok">>

\* C16: the state file round trip.  Without PlayerData.dat at the start the
\* backup step is skipped without an error and nothing is written back; with
\* it, after a successful run the file is at its original path with the
\* content it had, in a directory that exists again.  The restore step
\* copies if and only if the backup step copied.
C16_PlayerDataRoundTrip ==
    entry = "mod_current_apk" =>
        /\ PLAYER_DATA \notin DOMAIN fs0 =>
            /\ PLAYER_DATA \notin DOMAIN fs
            /\ PLAYER_BACKUP \notin DOMAIN fs
            /\ StepRecord("backup_player_data") \in {<<>>, <<"backup_player_data", "skipped">>}
            /\ StepRecord("restore_player_data") \in {<<>>, <<"restore_player_data", "skipped">>}
        /\ (ModSucceeded /\ PLAYER_DATA \in DOMAIN fs0) =>
            /\ APP_DATA_PATH \in dirs
            /\ Same(PLAYER_DATA)
        /\ StepRecord("restore_player_data") # <<>> =>
            (StepRecord("restore_player_data")[2] # "skipped"
                <=> StepRecord("backup_player_data") = <<"backup_player_data", "ok">>)
C16_Witness ==
    /\ ModSucceeded
    /\ PLAYER_DATA \in DOMAIN fs0
    /\ cmds[1] = <<"pm uninstall", "exit_0">>
    /\ Same(PLAYER_DATA)

\* The steps before the uninstall.
BeforeUninstall ==
    {"create_temp", "save_libunity", "copy_apk", "call_save_obbs",
     "backup_player_data", "call_patch"}

\* C20: pm uninstall is invoked only once the mutated package is ready:
\* after save_obbs returned Ok, after the state file was backed up when there
\* was one, and after every stage of patch_apk_in_place, signing included,
\* succeeded.  When one of them fails neither pm uninstall nor pm install is
\* invoked.
C20_UninstallGuard ==
    entry = "mod_current_apk" =>
        /\ cmds # <<>> =>
            /\ cmds[1][1] = "pm uninstall"
            /\ StepRecord("call_save_obbs") = <<"call_save_obbs", "ok">>
            /\ StepRecord("backup_player_data") =
                 <<"backup_player_data",
                   IF PLAYER_DATA \in DOMAIN fs0 THEN "ok" ELSE "skipped">>
            /\ backed_up_data = (PLAYER_DATA \in DOMAIN fs0)
            /\ PLAYER_DATA \in DOMAIN fs0 => PLAYER_BACKUP \in DOMAIN fs
            /\ StepRecord("call_patch") = <<"call_patch", "ok">>
            /\ Len(stages) = Len(PatchStages)
            /\ \A k \in DOMAIN stages : stages[k] = <<PatchStages[k], "ok">>
            /\ zipops # <<>> /\ zipops[Len(zipops)][1] = "save_and_sign_v2"
        /\ (ModEnded /\ LastStep \in BeforeUninstall) => cmds = <<>>
C20_Witness ==
    /\ entry = "mod_current_apk"
    /\ Len(cmds) >= 2
    /\ cmds[1] = <<"pm uninstall", "exit_0">>
    /\ cmds[2] = <<"pm install", "exit_0">>
    /\ PLAYER_DATA \in DOMAIN fs0
    /\ \E p \in DOMAIN fs : Parent(p) = OBB_BACKUP

----------------------------------------------------------------------------
(* get_modloader_path() and install_modloader() *)

MODLOADERS_PATH == "sdcard/ModData/APK_ID/Modloader"
MODLOADER_NAME == <<"l", "i", "b", "s", "l", "2", ".", "s", "o">>
MODLOADER == <<108, 115, 50>>              \* include_bytes!(libsl2.so)
LoaderPath == Join(MODLOADERS_PATH, MODLOADER_NAME)

\* A file opened with create and write, without truncate, and written from
\* its start: what was there beyond the bytes written stays.
WriteOver(old, bytes) == bytes \o SubSeq(old, Len(bytes) + 1, Len(old))

\* get_modloader_path: create_dir_all(modloaders_path)?, then the path of the
\* modloader in it; called by install_modloader, or from outside.
GetModloaderPath ==
    /\ pc = "get_modloader_path"
    /\ \E o \in {"ok", "create_dir_fail"} :
        /\ MayInject(o)
        /\ fault' = fault + Injected(o)
        /\ IF o = "ok"
           THEN /\ dirs' = dirs \cup {MODLOADERS_PATH}
                /\ IF entry = "install_modloader"
                   THEN pc' = "install_modloader" /\ UNCHANGED ret
                   ELSE pc' = "done" /\ ret' = Ok
           ELSE /\ pc' = "done"
                /\ ret' = Err("create_dir_all")
                /\ UNCHANGED dirs
    /\ UNCHANGED <<entry, log, fs, fs0, obbVars, dlVars, zipVars, modVars>>

\* install_modloader, after get_modloader_path()?: the file is opened and
\* MODLOADER is written to it with write_all, which may stop after n bytes.
InstallModloader ==
    /\ pc = "install_modloader"
    /\ \E o \in {"ok", "open_fail", "write_fail"}, n \in 0..(Len(MODLOADER) - 1) :
        /\ o # "write_fail" => n = 0
        /\ MayInject(o)
        /\ fault' = fault + Injected(o)
        /\ LET old == IF LoaderPath \in DOMAIN fs THEN fs[LoaderPath] ELSE <<>>
           IN  IF o = "open_fail" \/ MODLOADERS_PATH \notin dirs
               THEN ret' = Err("open") /\ UNCHANGED fs
               ELSE IF o = "write_fail"
               THEN /\ ret' = Err("write_all")
                    /\ fs' = Put(fs, LoaderPath, WriteOver(old, SubSeq(MODLOADER, 1, n)))
               ELSE /\ ret' = Ok
                    /\ fs' = Put(fs, LoaderPath, WriteOver(old, MODLOADER))
    /\ pc' = "done"
    /\ UNCHANGED <<entry, log, dirs, fs0, obbVars, dlVars, zipVars, modVars>>

\* Either function, with or without the directory, with or without a
\* modloader file of any length in it.
InitLoader ==
    /\ pc = "get_modloader_path"
    /\ entry \in {"get_modloader_path", "install_modloader"}
    /\ ret = NoRet
    /\ log = <<>>
    /\ fault = 0
    /\ \/ fs = <<>> /\ dirs \in {{}, {MODLOADERS_PATH}}
       \/ /\ dirs = {MODLOADERS_PATH}
          /\ \E old \in {<<>>, <<1>>, <<1, 2, 3>>, <<1, 2, 3, 4>>} :
                fs = [q \in {LoaderPath} |-> old]
    /\ fs0 = fs
    /\ todo = {}
    /\ paths = <<>>
    /\ queue = <<>>
    /\ version_diffs = NoDiffs
    /\ idx = 0
    /\ attempt = 0
    /\ calls = <<>>
    /\ zip = <<>>
    /\ zipops = <<>>
    /\ stages = <<>>
    /\ libunity_path = None
    /\ modloader = "not called"
    /\ trace = <<>>
    /\ backed_up_data = FALSE
    /\ pkg = NoPkg
    /\ cmds = <<>>

NextLoader ==
    \/ GetModloaderPath
    \/ InstallModloader

SpecLoader == InitLoader /\ [][NextLoader]_vars

====
